---- MODULE Spec2Model ----
(***************************************************************************)
(* Scripts of the WDK + Candide integration examples:                      *)
(*   - recovery-flow-personal-guardian  (script "recoveryPG")              *)
(*   - recovery-flow-email-sms          (script "recoveryCU")              *)
(*   - cancel-recovery                  (script "cancel")                  *)
(*   - add-personal-guardian            (script "addGuardian")             *)
(*   - enable-email-sms-recovery        (script "enableEmailSms")          *)
(*   - setup-alerts                     (script "setupAlerts")             *)
(*   - send-userop-sponsored / -erc20   (scripts "sendSponsored",          *)
(*                                       "sendErc20")                      *)
(* run against the Social Recovery Module of one Safe and the recovery     *)
(* service.  Every await of a script is one action; a remote call either   *)
(* throws (the script exits 1) or returns.  Time is counted in units of    *)
(* 30 seconds.  Spec interleaves a recovery flow with cancel-recovery on a *)
(* Safe that is set up; ScriptsSpec runs one script, whichever, from its   *)
(* configuration step.                                                     *)
(***************************************************************************)
EXTENDS Integers, Sequences, FiniteSets, TLC

VARIABLES
    now,                \* wall clock / block time, in units of 30 s
    flow,               \* the recovery flow that runs in this behaviour
    pc,                 \* script -> position
    wake,               \* script -> its last setTimeout: started at .from, fires at .at
    calls,              \* script -> sequence of remote calls made so far, with results
    addressed,          \* script -> module addresses its calls were directed to
    \* ---- on-chain state of the Safe ----
    executeAfter,       \* module address -> executeAfter of the pending request (0 = none)
    owners,             \* owner set of the Safe
    guardians,          \* module address -> guardians of the Safe
    threshold,          \* module address -> guardian threshold of the Safe
    \* ---- recovery service: the recovery request ----
    status,             \* NONE, PENDING, EXECUTED, FINALIZED, CANCELLED
    approvals,          \* guardians whose signature the service accepted
    reqModule,          \* module address the request is executed on
    \* ---- transactions handed to the bundler ----
    execTx, finTx, cancelTx,
    \* ---- locals of the recovery flows ----
    guardian1, guardian2,       \* recoveryPG: addresses of the two env keys
    executedRequest,            \* recoveryPG: status read after execute, or "null"
    recoveryRequestEip712Data,  \* recoveryPG: the typed data read from the module
    guardian1Signature, guardian2Signature, \* recoveryPG: what each guardian signed
    recoveryRequest,            \* recoveryPG: the request created at the service
    auths, authIdx,             \* recoveryCU: channels of the challenge, loop index
    verificationResult,         \* recoveryCU: last OTP submission result
    verifiedOk,                 \* recoveryCU: channels whose submission returned success
    finalizationResult,         \* "unset", "truthy", "falsy"
    completed,                  \* "Recovery complete!" was printed
    \* ---- locals of cancel-recovery ----
    cancelRuns,         \* number of runs of the script started so far
    seedAccount,        \* Safe the seed phrase derives
    safeAccountAddress, \* SAFE_ACCOUNT_ADDRESS as written in the env
    pendingSeen,        \* executeAfter read at step 2 (-1 = not read)
    walletCreated, accountAddress, disposed,
    \* ---- history ----
    executeReturnedAt,  \* time at which the execute call returned (0 = not yet)
    graceDeadline,      \* executeAfter given to the request on execution (0 = none)
    \* ---- a script run from its configuration step ----
    running,            \* the script the operator runs ("none": see Init)
    env,                \* settings present in .env
    asked,              \* questions the operator was prompted with
    moduleEnabled,      \* module address -> the module is enabled on the Safe
    userOp,             \* the UserOperation the script handed to the bundler
    submitted,          \* batches the script has submitted so far, in order
    moduleAlreadyEnabled, \* result of the isModuleEnabled read: "unset", "yes", "no"
    choice,             \* parseInt of the channel choice the operator typed
    candideGuardianAddress, \* enable-email-sms-recovery: "" until a registration returns
    activated,          \* setup-alerts: channels whose subscription was activated
    balance             \* send-userop-erc20: paymaster token balance of the account

chainVars  == <<executeAfter, owners, guardians, threshold>>
svcVars    == <<status, approvals, reqModule>>
txVars     == <<execTx, finTx, cancelTx>>
pgVars     == <<guardian1, guardian2, executedRequest, recoveryRequestEip712Data,
                guardian1Signature, guardian2Signature, recoveryRequest>>
cuVars     == <<auths, authIdx, verificationResult, verifiedOk>>
flowVars   == <<finalizationResult, completed>>
cancelVars == <<cancelRuns, seedAccount, safeAccountAddress, pendingSeen,
                walletCreated, accountAddress, disposed>>
histVars   == <<executeReturnedAt, graceDeadline>>
scriptVars == <<running, env, asked, moduleEnabled, userOp, submitted,
                moduleAlreadyEnabled, choice, candideGuardianAddress, activated, balance>>
vars == <<now, flow, pc, wake, calls, addressed, chainVars, svcVars, txVars, pgVars, cuVars,
          flowVars, cancelVars, histVars, scriptVars>>

-----------------------------------------------------------------------------
(* Bounds *)
MaxTime       == 12
MaxCancelRuns == 2

-----------------------------------------------------------------------------
(* Grace-period policies *)
Selectors == {"After3Minutes", "After3Days", "After7Days", "After14Days"}

\* duration of a policy, in units of 30 s
GracePeriodDuration(sel) ==
    CASE sel = "After3Minutes" -> 6
      [] sel = "After3Days"    -> 8640
      [] sel = "After7Days"    -> 20160
      [] sel = "After14Days"   -> 40320

\* each selector is a distinct deployed module instance
ModuleAddress(sel) ==
    CASE sel = "After3Minutes" -> "SRM_3m"
      [] sel = "After3Days"    -> "SRM_3d"
      [] sel = "After7Days"    -> "SRM_7d"
      [] sel = "After14Days"   -> "SRM_14d"

ModuleAddresses == {ModuleAddress(s) : s \in Selectors}

GracePeriodOf(m) == GracePeriodDuration(CHOOSE s \in Selectors : ModuleAddress(s) = m)

\* the selector each script is written with
\* Faulty variant: cancel-recovery written with the production selector
CancelSelectorAfter3Days  == "After3Days"
AddGuardianSelector       == "After3Minutes"
EnableEmailSmsSelector    == "After3Minutes"
RecoveryPGSrmSelector     == "After3Minutes"
RecoveryPGServiceSelector == "After3Minutes"
\* Faulty variant: the email/SMS flow finalizes with the production selector
RecoveryCUServiceSelectorAfter3Days == "After3Days"
RecoveryCUServiceSelector == "After3Minutes"
CancelSelector            == "After3Minutes"

\* setTimeout durations of the recovery flows, in units of 30 s
BundlerWait == 1
\* Faulty variant: a grace wait of two minutes
GraceWaitTwoMinutes == 2 * 2
GraceWait   == 8
LandWait    == 1

-----------------------------------------------------------------------------
Scripts  == {"recoveryPG", "recoveryCU", "cancel", "addGuardian", "enableEmailSms",
             "setupAlerts", "sendSponsored", "sendErc20"}
Flows    == {"recoveryPG", "recoveryCU"}
Channels == {"email", "sms"}
AuthLists == {<<>>, <<"email">>, <<"sms">>, <<"email", "sms">>}
Forms    == {"checksum", "lower"}
NoAddress == [id |-> "none", form |-> "lower"]

\* String.prototype.toLowerCase on an address
toLowerCase(a) == [a EXCEPT !.form = "lower"]

\* `let verificationResult` before any submission
UndefinedResult == [defined |-> FALSE, success |-> FALSE, hasSig |-> FALSE]

NoTx == [st |-> "none", module |-> "none", sender |-> "none"]

\* the message of a recovery request: the account, its new owners, its new threshold
MessageValue(account, newOwners, newThreshold) ==
    [account |-> account, newOwners |-> newOwners, newThreshold |-> newThreshold]
NoMessage   == MessageValue(NoAddress, {}, 0)
NoEip712Data == [domain |-> "none", messageValue |-> NoMessage]
NoSignature == [signer |-> "none", domain |-> "none", message |-> NoMessage]

\* account.signTypedData({domain, types, message}) of a guardian key
signTypedData(signer, data) ==
    [signer |-> signer, domain |-> data.domain, message |-> data.messageValue]

Terminated(s) == pc[s] \in {"exit0", "exit1"}

-----------------------------------------------------------------------------
(* Settings of .env *)
Settings == {"CHAIN_ID", "NODE_URL", "BUNDLER_URL", "PAYMASTER_URL", "ENTRY_POINT_ADDRESS",
             "SPONSORSHIP_POLICY_ID", "RECOVERY_SERVICE_URL", "SEED_PHRASE",
             "SAFE_ACCOUNT_ADDRESS", "GUARDIAN_1_PRIVATE_KEY", "GUARDIAN_2_PRIVATE_KEY",
             "PAYMASTER_ADDRESS", "PAYMASTER_TOKEN_ADDRESS"}

\* "Required env vars" of the docstring of each script
RequiredEnvVars(s) ==
    CASE s = "recoveryPG"     -> {"CHAIN_ID", "NODE_URL", "RECOVERY_SERVICE_URL",
                                  "GUARDIAN_1_PRIVATE_KEY", "GUARDIAN_2_PRIVATE_KEY"}
      [] s = "recoveryCU"     -> {"CHAIN_ID", "RECOVERY_SERVICE_URL", "NODE_URL"}
      [] s = "cancel"         -> {"SEED_PHRASE", "SAFE_ACCOUNT_ADDRESS", "CHAIN_ID", "NODE_URL",
                                  "BUNDLER_URL", "PAYMASTER_URL", "ENTRY_POINT_ADDRESS"}
      [] s = "addGuardian"    -> {"CHAIN_ID", "NODE_URL", "BUNDLER_URL", "PAYMASTER_URL",
                                  "ENTRY_POINT_ADDRESS"}
      [] s = "enableEmailSms" -> {"CHAIN_ID", "NODE_URL", "BUNDLER_URL", "PAYMASTER_URL",
                                  "RECOVERY_SERVICE_URL"}
      [] s = "setupAlerts"    -> {"CHAIN_ID", "RECOVERY_SERVICE_URL", "SEED_PHRASE"}
      [] s = "sendSponsored"  -> {"CHAIN_ID", "NODE_URL", "BUNDLER_URL", "PAYMASTER_URL",
                                  "ENTRY_POINT_ADDRESS", "SPONSORSHIP_POLICY_ID"}
      [] s = "sendErc20"      -> {"CHAIN_ID", "NODE_URL", "BUNDLER_URL", "PAYMASTER_URL",
                                  "PAYMASTER_ADDRESS", "PAYMASTER_TOKEN_ADDRESS",
                                  "ENTRY_POINT_ADDRESS"}

\* requiredEnvVars of main(): the settings the script checks before anything else;
\* the send-userop scripts read process.env without any check
CheckedEnvVars(s) ==
    CASE s = "enableEmailSms" -> RequiredEnvVars(s) \cup {"ENTRY_POINT_ADDRESS"}
      [] s \in {"sendSponsored", "sendErc20"} -> {}
      [] OTHER -> RequiredEnvVars(s)

\* one setting at most is left out of .env, or both guardian keys are
Envs == {Settings} \cup {Settings \ {v} : v \in Settings}
          \cup {Settings \ {"GUARDIAN_1_PRIVATE_KEY", "GUARDIAN_2_PRIVATE_KEY"}}

-----------------------------------------------------------------------------
(* Meta transactions and the UserOperation that batches them *)
EnableModuleTx == [op |-> "enableModule", guardian |-> "none", threshold |-> 0]
AddGuardianTx(g, thr) == [op |-> "addGuardianWithThreshold", guardian |-> g, threshold |-> thr]
NoOpTx == [op |-> "call", guardian |-> "none", threshold |-> 0]
NoUserOp == [st |-> "none", module |-> "none", txs |-> <<>>]

\* the Safe as module m sees it, while a batch executes
ChainOf(m) == [ok |-> TRUE, enabled |-> moduleEnabled[m], guardians |-> guardians[m],
               threshold |-> threshold[m]]

\* one transaction of a batch: enableModule reverts on an enabled module,
\* addGuardianWithThreshold reverts on a known guardian or an invalid threshold
ApplyTx(c, tx) ==
    IF ~c.ok THEN c
    ELSE CASE tx.op = "enableModule" ->
                IF c.enabled THEN [c EXCEPT !.ok = FALSE] ELSE [c EXCEPT !.enabled = TRUE]
           [] tx.op = "addGuardianWithThreshold" ->
                IF \/ ~c.enabled
                   \/ tx.guardian \in c.guardians
                   \/ tx.guardian = ""
                   \/ tx.threshold < 1
                   \/ tx.threshold > Cardinality(c.guardians) + 1
                  THEN [c EXCEPT !.ok = FALSE]
                  ELSE [c EXCEPT !.guardians = @ \cup {tx.guardian},
                                 !.threshold = tx.threshold]
           [] OTHER -> c

RECURSIVE ApplyBatch(_, _)
ApplyBatch(c, txs) ==
    IF txs = <<>> THEN c ELSE ApplyBatch(ApplyTx(c, Head(txs)), Tail(txs))

\* what the operator can type at "Enter choice (1-3)", character by character
Answers == {<<>>, <<"1">>, <<"2">>, <<"3">>, <<"0">>, <<"4">>, <<"a">>, <<"2", "a">>,
            <<"1", "2">>, <<" ", "3">>, <<"-", "1">>}

IsDigit(c) == c \in {"0", "1", "2", "3", "4"}
DigitValue(c) ==
    CASE c = "0" -> 0 [] c = "1" -> 1 [] c = "2" -> 2 [] c = "3" -> 3 [] c = "4" -> 4

\* the answer without its leading white space
RECURSIVE TrimStart(_)
TrimStart(a) == IF a # <<>> /\ Head(a) = " " THEN TrimStart(Tail(a)) ELSE a

\* the longest prefix of digits
RECURSIVE DigitsPrefix(_)
DigitsPrefix(a) ==
    IF a # <<>> /\ IsDigit(Head(a)) THEN <<Head(a)>> \o DigitsPrefix(Tail(a)) ELSE <<>>

\* the decimal value of a sequence of digits, acc being the value read so far
RECURSIVE DecimalValue(_, _)
DecimalValue(d, acc) ==
    IF d = <<>> THEN acc ELSE DecimalValue(Tail(d), 10 * acc + DigitValue(Head(d)))

\* parseInt(string): white space and a sign are skipped, the digits that follow are
\* read up to the first other character; no digit there: NaN
parseInt(a) ==
    LET t    == TrimStart(a)
        neg  == t # <<>> /\ Head(t) = "-"
        body == IF t # <<>> /\ Head(t) \in {"-", "+"} THEN Tail(t) ELSE t
        d    == DigitsPrefix(body)
    IN  IF d = <<>> THEN [typed |-> a, nan |-> TRUE, n |-> 0]
        ELSE [typed |-> a, nan |-> FALSE,
              n |-> IF neg THEN 0 - DecimalValue(d, 0) ELSE DecimalValue(d, 0)]

\* `choice` before the prompt, and the values it can take
NoChoice == [typed |-> <<>>, nan |-> TRUE, n |-> 0]
Choices  == {parseInt(a) : a \in Answers}
\* choice < 1 || choice > 3 (both comparisons are false for NaN)
InvalidChoice(c) == ~c.nan /\ (c.n < 1 \/ c.n > 3)
EnableEmail(c) == ~c.nan /\ (c.n = 1 \/ c.n = 3)
EnableSms(c)   == ~c.nan /\ (c.n = 2 \/ c.n = 3)

\* Faulty variant: a pending request is finalizable whatever the time
CanFinalizeIgnoringDeadline(ea, t) == ea # 0

\* Faulty variant: executeAfter = 0 is taken for a deadline that has passed
CanFinalizeAnyRequest(ea, t) == t >= ea

\* now >= executeAfterDate, for a pending request
CanFinalize(ea, t) == ea # 0 /\ t >= ea

-----------------------------------------------------------------------------
(* Initial state: the Safe has been set up by the setup script of the flow *)
(* that runs; nothing has been requested yet.                              *)
Init ==
    /\ now = 1
    /\ flow \in Flows
    /\ pc = [s \in Scripts |-> IF s = flow THEN "start" ELSE "off"]
    /\ wake = [s \in Scripts |-> [from |-> 0, at |-> 0]]
    /\ calls = [s \in Scripts |-> <<>>]
    /\ addressed = [s \in Scripts |-> {}]
    /\ executeAfter = [m \in ModuleAddresses |-> 0]
    /\ owners = {"owner"}
    /\ guardians = [m \in ModuleAddresses |->
                      IF flow = "recoveryPG" /\ m = ModuleAddress(AddGuardianSelector)
                        THEN {"g1", "g2"}
                      ELSE IF flow = "recoveryCU" /\ m = ModuleAddress(EnableEmailSmsSelector)
                        THEN {"gc"}
                      ELSE {}]
    /\ threshold = [m \in ModuleAddresses |-> Cardinality(guardians[m])]
    /\ status = "NONE"
    /\ approvals = {}
    /\ reqModule = "none"
    /\ execTx = NoTx /\ finTx = NoTx /\ cancelTx = NoTx
    /\ IF flow = "recoveryPG"
         THEN guardian1 \in {"g1", "gx"} /\ guardian2 \in {"g1", "g2"}
         ELSE guardian1 = "none" /\ guardian2 = "none"
    /\ executedRequest = "unset"
    /\ recoveryRequestEip712Data = NoEip712Data
    /\ guardian1Signature = NoSignature /\ guardian2Signature = NoSignature
    /\ recoveryRequest = NoMessage
    /\ auths = <<>> /\ authIdx = 0
    /\ verificationResult = UndefinedResult
    /\ verifiedOk = {}
    /\ finalizationResult = "unset"
    /\ completed = FALSE
    /\ cancelRuns = 0
    /\ seedAccount \in {"safe", "other"}
    /\ \E f \in Forms : safeAccountAddress = [id |-> "safe", form |-> f]
    /\ pendingSeen = -1
    /\ walletCreated = FALSE /\ accountAddress = NoAddress /\ disposed = FALSE
    /\ executeReturnedAt = 0 /\ graceDeadline = 0
    /\ running = "none"
    /\ env = Settings
    /\ asked = {}
    /\ moduleEnabled = [m \in ModuleAddresses |-> guardians[m] # {}]
    /\ userOp = NoUserOp
    /\ submitted = <<>>
    /\ moduleAlreadyEnabled = "unset"
    /\ choice = NoChoice
    /\ candideGuardianAddress = ""
    /\ activated = {}
    /\ balance = 0

-----------------------------------------------------------------------------
(* Helpers of the script steps *)
Goto(s, l)    == pc' = [pc EXCEPT ![s] = l]
Logged(s, name, res) == [calls EXCEPT ![s] = Append(@, [name |-> name, result |-> res])]
\* a call that is not directed to a module instance
Log(s, name, res) == calls' = Logged(s, name, res) /\ UNCHANGED addressed
\* a call on an object constructed with a grace-period selector: it goes to module m
LogAt(s, name, res, m) ==
    /\ calls' = Logged(s, name, res)
    /\ addressed' = [addressed EXCEPT ![s] = @ \cup {m}]
Call(s, name)      == Log(s, name, "ok")
CallAt(s, name, m) == LogAt(s, name, "ok", m)
Sleep(s, d)   == wake' = [wake EXCEPT ![s] = [from |-> now, at |-> now + d]]
Awake(s)      == now >= wake[s].at

\* Faulty variant: the error is caught where it is thrown and the step is made again
ThrowsAndRetries(s, name)      == Log(s, name, "throw") /\ UNCHANGED pc
ThrowsAtAndRetries(s, name, m) == LogAt(s, name, "throw", m) /\ UNCHANGED pc

\* a remote call that throws: main() rejects, the catch handler exits 1
Throws(s, name)      == Log(s, name, "throw") /\ Goto(s, "exit1")
ThrowsAt(s, name, m) == LogAt(s, name, "throw", m) /\ Goto(s, "exit1")

-----------------------------------------------------------------------------
(* Environment: time, bundler inclusion, on-chain module *)
Tick ==
    /\ now < MaxTime
    /\ now' = now + 1
    /\ UNCHANGED <<scriptVars, flow, pc, wake, calls, addressed, chainVars, svcVars, txVars, pgVars, cuVars,
                   flowVars, cancelVars, histVars>>

\* executeRecovery lands on-chain: the grace period of the module starts
IncludeExecute ==
    /\ execTx.st = "inflight"
    /\ \/ /\ executeAfter[execTx.module] = 0
          /\ executeAfter' = [executeAfter EXCEPT
                                ![execTx.module] = now + GracePeriodOf(execTx.module)]
          /\ status' = "EXECUTED"
          /\ graceDeadline' = now + GracePeriodOf(execTx.module)
          /\ execTx' = [execTx EXCEPT !.st = "included"]
       \/ /\ execTx' = [execTx EXCEPT !.st = "reverted"]
          /\ UNCHANGED <<executeAfter, status, graceDeadline>>
    /\ UNCHANGED <<scriptVars, now, flow, pc, wake, calls, addressed, owners, guardians, threshold, approvals,
                   reqModule, finTx, cancelTx, pgVars, cuVars, flowVars, cancelVars,
                   executeReturnedAt>>

\* finalizeRecovery lands on-chain: the module enforces the deadline
IncludeFinalize ==
    /\ finTx.st = "inflight"
    /\ IF CanFinalize(executeAfter[finTx.module], now)
         THEN /\ owners' = {"newOwner"}
              /\ executeAfter' = [executeAfter EXCEPT ![finTx.module] = 0]
              /\ status' = IF reqModule = finTx.module THEN "FINALIZED" ELSE status
              /\ finTx' = [finTx EXCEPT !.st = "included"]
         ELSE /\ finTx' = [finTx EXCEPT !.st = "reverted"]
              /\ UNCHANGED <<owners, executeAfter, status>>
    /\ UNCHANGED <<scriptVars, now, flow, pc, wake, calls, addressed, guardians, threshold, approvals,
                   reqModule, execTx, cancelTx, pgVars, cuVars, flowVars, cancelVars,
                   histVars>>

\* Faulty variant: the cancellation does not delete the pending request
IncludeCancelKeepsRequest ==
    /\ cancelTx.st = "inflight"
    /\ IF cancelTx.sender = "safe" /\ executeAfter[cancelTx.module] # 0
         THEN /\ status' = IF reqModule = cancelTx.module THEN "CANCELLED" ELSE status
              /\ cancelTx' = [cancelTx EXCEPT !.st = "included"]
         ELSE /\ cancelTx' = [cancelTx EXCEPT !.st = "reverted"]
              /\ UNCHANGED status
    /\ UNCHANGED <<scriptVars, now, flow, pc, wake, calls, addressed, chainVars, approvals,
                   reqModule, execTx, finTx, pgVars, cuVars, flowVars, cancelVars,
                   histVars>>

\* cancelRecovery lands on-chain: msg.sender identifies the Safe that cancels
IncludeCancel ==
    /\ cancelTx.st = "inflight"
    /\ IF cancelTx.sender = "safe" /\ executeAfter[cancelTx.module] # 0
         THEN /\ executeAfter' = [executeAfter EXCEPT ![cancelTx.module] = 0]
              /\ status' = IF reqModule = cancelTx.module THEN "CANCELLED" ELSE status
              /\ cancelTx' = [cancelTx EXCEPT !.st = "included"]
         ELSE /\ cancelTx' = [cancelTx EXCEPT !.st = "reverted"]
              /\ UNCHANGED <<executeAfter, status>>
    /\ UNCHANGED <<scriptVars, now, flow, pc, wake, calls, addressed, owners, guardians, threshold, approvals,
                   reqModule, execTx, finTx, pgVars, cuVars, flowVars, cancelVars,
                   histVars>>

-----------------------------------------------------------------------------
(* Recovery service *)

\* the service accepts a guardian signature for a request on module m
SignatureAccepted(signer, m) == signer \in guardians[m]

\* the service executes a request only with enough approvals
ExecuteLegal == status = "PENDING" /\ Cardinality(approvals) >= threshold[reqModule]

\* the service finalizes on module m only an executed request whose deadline passed
FinalizeLegal(m) == status = "EXECUTED" /\ CanFinalize(executeAfter[m], now)

\* Faulty variant: the flow does not look at the result of finalizeRecoveryRequest
FinalizeRecoveryRequestIgnoresResult(s, sel) ==
    /\ pc[s] = "finalize"
    /\ Awake(s)
    /\ \/ /\ ThrowsAt(s, "finalizeRecoveryRequest", ModuleAddress(sel))
          /\ UNCHANGED <<wake, finTx, finalizationResult>>
       \/ /\ FinalizeLegal(ModuleAddress(sel))
          /\ CallAt(s, "finalizeRecoveryRequest", ModuleAddress(sel))
          /\ finTx' = [st |-> "inflight", module |-> ModuleAddress(sel),
                       sender |-> "service"]
          /\ finalizationResult' = "truthy"
          /\ Sleep(s, LandWait)
          /\ Goto(s, "verify")
       \/ /\ ~FinalizeLegal(ModuleAddress(sel))
          /\ LogAt(s, "finalizeRecoveryRequest", "falsy", ModuleAddress(sel))
          /\ finalizationResult' = "falsy"
          /\ Sleep(s, LandWait)
          /\ Goto(s, "verify")
          /\ UNCHANGED finTx
    /\ UNCHANGED <<scriptVars, now, flow, chainVars, svcVars, execTx, cancelTx, pgVars, cuVars,
                   completed, cancelVars, histVars>>

\* finalizeRecoveryRequest as both flows call it, on the service object of selector sel
FinalizeRecoveryRequest(s, sel) ==
    /\ pc[s] = "finalize"
    /\ Awake(s)
    /\ \/ /\ ThrowsAt(s, "finalizeRecoveryRequest", ModuleAddress(sel))
          /\ UNCHANGED <<wake, finTx, finalizationResult>>
       \/ /\ FinalizeLegal(ModuleAddress(sel))
          /\ CallAt(s, "finalizeRecoveryRequest", ModuleAddress(sel))
          /\ finTx' = [st |-> "inflight", module |-> ModuleAddress(sel),
                       sender |-> "service"]
          /\ finalizationResult' = "truthy"
          /\ Sleep(s, LandWait)
          /\ Goto(s, "verify")
       \/ /\ ~FinalizeLegal(ModuleAddress(sel))
          /\ LogAt(s, "finalizeRecoveryRequest", "falsy", ModuleAddress(sel))
          /\ finalizationResult' = "falsy"
          /\ Goto(s, "exit0")
          /\ UNCHANGED <<wake, finTx>>
    /\ UNCHANGED <<scriptVars, now, flow, chainVars, svcVars, execTx, cancelTx, pgVars, cuVars,
                   completed, cancelVars, histVars>>

\* smartAccount.getOwners and the final report, as both flows do it
GetOwners(s) ==
    /\ pc[s] = "verify"
    /\ Awake(s)
    /\ \/ /\ Throws(s, "getOwners")
          /\ UNCHANGED completed
       \/ /\ Call(s, "getOwners")
          /\ completed' = TRUE
          /\ Goto(s, "exit0")
    /\ UNCHANGED <<scriptVars, now, flow, wake, chainVars, svcVars, txVars, pgVars, cuVars,
                   finalizationResult, cancelVars, histVars>>

-----------------------------------------------------------------------------
(* recovery-flow-personal-guardian *)

\* the new owner the flow recovers to; the new Safe threshold as written in the call
\* that reads the typed data (1n) and in the call that creates the request (1)
NewOwners           == {"newOwner"}
Eip712NewThreshold  == 1
RequestNewThreshold == 1

\* step 3: the typed data of the request is read from the module, once
PgGetRecoveryRequestEip712Data ==
    /\ pc["recoveryPG"] = "start"
    /\ \/ /\ ThrowsAt("recoveryPG", "getRecoveryRequestEip712Data",
                      ModuleAddress(RecoveryPGSrmSelector))
          /\ UNCHANGED recoveryRequestEip712Data
       \/ /\ CallAt("recoveryPG", "getRecoveryRequestEip712Data",
                    ModuleAddress(RecoveryPGSrmSelector))
          /\ recoveryRequestEip712Data' =
                [domain |-> ModuleAddress(RecoveryPGSrmSelector),
                 messageValue |-> MessageValue(safeAccountAddress, NewOwners,
                                               Eip712NewThreshold)]
          /\ Goto("recoveryPG", "create")
    /\ UNCHANGED <<scriptVars, now, flow, wake, chainVars, svcVars, txVars, guardian1,
                   guardian2, executedRequest, guardian1Signature, guardian2Signature,
                   recoveryRequest, cuVars, flowVars, cancelVars, histVars>>

\* step 3: guardian 1 signs the typed data, the request is created with its signature
PgCreateRecoveryRequest ==
    /\ pc["recoveryPG"] = "create"
    /\ guardian1Signature' = signTypedData(guardian1, recoveryRequestEip712Data)
    /\ \/ /\ ThrowsAt("recoveryPG", "createRecoveryRequest",
                      ModuleAddress(RecoveryPGServiceSelector))
          /\ UNCHANGED <<svcVars, recoveryRequest>>
       \/ /\ status = "NONE"
          /\ SignatureAccepted(guardian1, ModuleAddress(RecoveryPGServiceSelector))
          /\ CallAt("recoveryPG", "createRecoveryRequest",
                    ModuleAddress(RecoveryPGServiceSelector))
          /\ recoveryRequest' = MessageValue(safeAccountAddress, NewOwners,
                                            RequestNewThreshold)
          /\ status' = "PENDING"
          /\ approvals' = {guardian1}
          /\ reqModule' = ModuleAddress(RecoveryPGServiceSelector)
          /\ Goto("recoveryPG", "submit")
    /\ UNCHANGED <<scriptVars, now, flow, wake, chainVars, txVars, guardian1, guardian2,
                   executedRequest, recoveryRequestEip712Data, guardian2Signature, cuVars,
                   flowVars, cancelVars, histVars>>

\* Faulty variant: the error of the submission is swallowed and the flow goes on
PgSubmitGuardianSignatureSwallowed ==
    /\ pc["recoveryPG"] = "submit"
    /\ \/ /\ LogAt("recoveryPG", "submitGuardianSignatureForRecoveryRequest", "throw",
                   ModuleAddress(RecoveryPGServiceSelector))
          /\ UNCHANGED approvals
       \/ /\ SignatureAccepted(guardian2, reqModule)
          /\ CallAt("recoveryPG", "submitGuardianSignatureForRecoveryRequest",
                    ModuleAddress(RecoveryPGServiceSelector))
          /\ approvals' = approvals \cup {guardian2}
    /\ Goto("recoveryPG", "execute")
    /\ guardian2Signature' = signTypedData(guardian2, recoveryRequestEip712Data)
    /\ UNCHANGED <<scriptVars, now, flow, wake, chainVars, status, reqModule, txVars, guardian1,
                   guardian2, executedRequest, recoveryRequestEip712Data, guardian1Signature,
                   recoveryRequest, cuVars, flowVars, cancelVars, histVars>>

\* Faulty variant: guardian 2 signs typed data built anew, for another new threshold
PgSubmitGuardianSignatureOtherMessage ==
    /\ pc["recoveryPG"] = "submit"
    /\ guardian2Signature' =
          signTypedData(guardian2,
                        [recoveryRequestEip712Data EXCEPT
                            !.messageValue = MessageValue(safeAccountAddress, NewOwners,
                                                          Eip712NewThreshold + 1)])
    /\ \/ /\ ThrowsAt("recoveryPG", "submitGuardianSignatureForRecoveryRequest",
                      ModuleAddress(RecoveryPGServiceSelector))
          /\ UNCHANGED svcVars
       \/ /\ SignatureAccepted(guardian2, reqModule)
          /\ CallAt("recoveryPG", "submitGuardianSignatureForRecoveryRequest",
                    ModuleAddress(RecoveryPGServiceSelector))
          /\ approvals' = approvals \cup {guardian2}
          /\ Goto("recoveryPG", "execute")
          /\ UNCHANGED <<status, reqModule>>
    /\ UNCHANGED <<scriptVars, now, flow, wake, chainVars, txVars, guardian1, guardian2,
                   executedRequest, recoveryRequestEip712Data, guardian1Signature,
                   recoveryRequest, cuVars, flowVars, cancelVars, histVars>>

\* step 4: guardian 2 signs the same typed data, its signature is submitted
PgSubmitGuardianSignature ==
    /\ pc["recoveryPG"] = "submit"
    /\ guardian2Signature' = signTypedData(guardian2, recoveryRequestEip712Data)
    /\ \/ /\ ThrowsAt("recoveryPG", "submitGuardianSignatureForRecoveryRequest",
                      ModuleAddress(RecoveryPGServiceSelector))
          /\ UNCHANGED svcVars
       \/ /\ SignatureAccepted(guardian2, reqModule)
          /\ CallAt("recoveryPG", "submitGuardianSignatureForRecoveryRequest",
                    ModuleAddress(RecoveryPGServiceSelector))
          /\ approvals' = approvals \cup {guardian2}
          /\ Goto("recoveryPG", "execute")
          /\ UNCHANGED <<status, reqModule>>
    /\ UNCHANGED <<scriptVars, now, flow, wake, chainVars, txVars, guardian1, guardian2,
                   executedRequest, recoveryRequestEip712Data, guardian1Signature,
                   recoveryRequest, cuVars, flowVars, cancelVars, histVars>>

PgExecuteRecoveryRequest ==
    /\ pc["recoveryPG"] = "execute"
    /\ \/ /\ ThrowsAt("recoveryPG", "executeRecoveryRequest",
                      ModuleAddress(RecoveryPGServiceSelector))
          /\ UNCHANGED <<wake, execTx, executeReturnedAt>>
       \/ /\ ExecuteLegal
          /\ CallAt("recoveryPG", "executeRecoveryRequest",
                    ModuleAddress(RecoveryPGServiceSelector))
          /\ execTx' = [st |-> "inflight", module |-> reqModule, sender |-> "service"]
          /\ executeReturnedAt' = now
          /\ Sleep("recoveryPG", BundlerWait)
          /\ Goto("recoveryPG", "getExecuted")
    /\ UNCHANGED <<scriptVars, now, flow, chainVars, svcVars, finTx, cancelTx, pgVars, cuVars,
                   flowVars, cancelVars, graceDeadline>>

\* Faulty variant: the flow stops when the read does not show EXECUTED
PgGetExecutedRecoveryRequestGated ==
    /\ pc["recoveryPG"] = "getExecuted"
    /\ Awake("recoveryPG")
    /\ \/ /\ ThrowsAt("recoveryPG", "getExecutedRecoveryRequestForLatestNonce",
                      ModuleAddress(RecoveryPGServiceSelector))
          /\ UNCHANGED <<wake, executedRequest>>
       \/ /\ CallAt("recoveryPG", "getExecutedRecoveryRequestForLatestNonce",
                    ModuleAddress(RecoveryPGServiceSelector))
          /\ executedRequest' = IF status = "EXECUTED" THEN "EXECUTED" ELSE "null"
          /\ IF status = "EXECUTED"
               THEN Sleep("recoveryPG", GraceWait) /\ Goto("recoveryPG", "finalize")
               ELSE UNCHANGED wake /\ Goto("recoveryPG", "exit0")
    /\ UNCHANGED <<scriptVars, now, flow, chainVars, svcVars, txVars, guardian1, guardian2,
                   recoveryRequestEip712Data, guardian1Signature, guardian2Signature,
                   recoveryRequest, cuVars, flowVars, cancelVars, histVars>>

\* Faulty variant: the finalize call follows the read without the grace wait
PgGetExecutedRecoveryRequestNoWait ==
    /\ pc["recoveryPG"] = "getExecuted"
    /\ Awake("recoveryPG")
    /\ \/ /\ ThrowsAt("recoveryPG", "getExecutedRecoveryRequestForLatestNonce",
                      ModuleAddress(RecoveryPGServiceSelector))
          /\ UNCHANGED <<wake, executedRequest>>
       \/ /\ CallAt("recoveryPG", "getExecutedRecoveryRequestForLatestNonce",
                    ModuleAddress(RecoveryPGServiceSelector))
          /\ executedRequest' = IF status = "EXECUTED" THEN "EXECUTED" ELSE "null"
          /\ Sleep("recoveryPG", 0)
          /\ Goto("recoveryPG", "finalize")
    /\ UNCHANGED <<scriptVars, now, flow, chainVars, svcVars, txVars, guardian1, guardian2,
                   recoveryRequestEip712Data, guardian1Signature, guardian2Signature,
                   recoveryRequest, cuVars, flowVars, cancelVars, histVars>>

PgGetExecutedRecoveryRequest ==
    /\ pc["recoveryPG"] = "getExecuted"
    /\ Awake("recoveryPG")
    /\ \/ /\ ThrowsAt("recoveryPG", "getExecutedRecoveryRequestForLatestNonce",
                      ModuleAddress(RecoveryPGServiceSelector))
          /\ UNCHANGED <<wake, executedRequest>>
       \/ /\ CallAt("recoveryPG", "getExecutedRecoveryRequestForLatestNonce",
                    ModuleAddress(RecoveryPGServiceSelector))
          /\ executedRequest' = IF status = "EXECUTED" THEN "EXECUTED" ELSE "null"
          /\ Sleep("recoveryPG", GraceWait)
          /\ Goto("recoveryPG", "finalize")
    /\ UNCHANGED <<scriptVars, now, flow, chainVars, svcVars, txVars, guardian1, guardian2,
                   recoveryRequestEip712Data, guardian1Signature, guardian2Signature,
                   recoveryRequest, cuVars, flowVars, cancelVars, histVars>>

PgFinalizeRecoveryRequest == FinalizeRecoveryRequest("recoveryPG", RecoveryPGServiceSelector)

PgGetOwners == GetOwners("recoveryPG")

PgNext ==
    \/ PgGetRecoveryRequestEip712Data
    \/ PgCreateRecoveryRequest
    \/ PgSubmitGuardianSignature
    \/ PgExecuteRecoveryRequest
    \/ PgGetExecutedRecoveryRequest
    \/ PgFinalizeRecoveryRequest
    \/ PgGetOwners

-----------------------------------------------------------------------------
(* recovery-flow-email-sms *)

CuRequestSignatureChallenge ==
    /\ pc["recoveryCU"] = "start"
    /\ \/ /\ Throws("recoveryCU", "requestCustodialGuardianSignatureChallenge")
          /\ UNCHANGED <<auths, authIdx>>
       \/ /\ Call("recoveryCU", "requestCustodialGuardianSignatureChallenge")
          /\ \E a \in AuthLists :
               /\ auths' = a
               /\ authIdx' = 1
               \* an empty loop leaves verificationResult undefined: return
               /\ Goto("recoveryCU", IF a = <<>> THEN "exit0" ELSE "otp")
    /\ UNCHANGED <<scriptVars, now, flow, wake, chainVars, svcVars, txVars, pgVars,
                   verificationResult, verifiedOk, flowVars, cancelVars, histVars>>

\* Faulty variant: a rejected submission does not end the loop
CuAfterSubmissionContinue(r) ==
    /\ verifiedOk' = IF r.success THEN verifiedOk \cup {auths[authIdx]} ELSE verifiedOk
    /\ IF authIdx < Len(auths)
         THEN /\ authIdx' = authIdx + 1
              /\ Goto("recoveryCU", "otp")
         ELSE /\ authIdx' = authIdx
              /\ Goto("recoveryCU", IF r.hasSig THEN "execute" ELSE "exit0")

\* Faulty variant: a rejected code is asked for again on the same channel
CuAfterSubmissionRetry(r) ==
    IF r.success
      THEN /\ verifiedOk' = verifiedOk \cup {auths[authIdx]}
           /\ IF authIdx < Len(auths)
                THEN /\ authIdx' = authIdx + 1
                     /\ Goto("recoveryCU", "otp")
                ELSE /\ authIdx' = authIdx
                     /\ Goto("recoveryCU", IF r.hasSig THEN "execute" ELSE "exit0")
      ELSE /\ Goto("recoveryCU", "otp")
           /\ UNCHANGED <<authIdx, verifiedOk>>

\* Faulty variant: a rejected code or a missing signature is thrown as an error
CuAfterSubmissionThrows(r) ==
    IF r.success
      THEN /\ verifiedOk' = verifiedOk \cup {auths[authIdx]}
           /\ IF authIdx < Len(auths)
                THEN /\ authIdx' = authIdx + 1
                     /\ Goto("recoveryCU", "otp")
                ELSE /\ authIdx' = authIdx
                     /\ Goto("recoveryCU", IF r.hasSig THEN "execute" ELSE "exit1")
      ELSE /\ Goto("recoveryCU", "exit1")
           /\ UNCHANGED <<authIdx, verifiedOk>>

\* the script after a submission that returned result r for channel auths[authIdx]
CuAfterSubmission(r) ==
    IF r.success
      THEN /\ verifiedOk' = verifiedOk \cup {auths[authIdx]}
           /\ IF authIdx < Len(auths)
                THEN /\ authIdx' = authIdx + 1
                     /\ Goto("recoveryCU", "otp")
                ELSE /\ authIdx' = authIdx
                     /\ Goto("recoveryCU", IF r.hasSig THEN "execute" ELSE "exit0")
      ELSE /\ Goto("recoveryCU", "exit0")
           /\ UNCHANGED <<authIdx, verifiedOk>>

CuSubmitSignatureChallenge ==
    /\ pc["recoveryCU"] = "otp"
    /\ \/ /\ Throws("recoveryCU", "submitCustodialGuardianSignatureChallenge")
          /\ UNCHANGED <<authIdx, verificationResult, verifiedOk>>
       \/ \E otpCorrect \in BOOLEAN, sig \in BOOLEAN :
            LET r == [defined |-> TRUE, success |-> otpCorrect,
                      hasSig |-> otpCorrect /\ sig]
            IN  /\ Log("recoveryCU", "submitCustodialGuardianSignatureChallenge",
                       IF r.success THEN "ok" ELSE "rejected")
                /\ verificationResult' = r
                /\ CuAfterSubmission(r)
    /\ UNCHANGED <<scriptVars, now, flow, wake, chainVars, svcVars, txVars, pgVars, auths,
                   flowVars, cancelVars, histVars>>

\* the module on which the custodial guardian of the Safe is registered
CustodialModule == CHOOSE m \in ModuleAddresses : "gc" \in guardians[m]

CuCreateAndExecuteRecoveryRequest ==
    /\ pc["recoveryCU"] = "execute"
    /\ \/ /\ Throws("recoveryCU", "createAndExecuteRecoveryRequest")
          /\ UNCHANGED <<wake, svcVars, execTx, executeReturnedAt>>
       \/ /\ status = "NONE"
          /\ \E m \in ModuleAddresses : "gc" \in guardians[m]
          /\ Call("recoveryCU", "createAndExecuteRecoveryRequest")
          /\ status' = "PENDING"
          /\ approvals' = {"gc"}
          /\ reqModule' = CustodialModule
          /\ execTx' = [st |-> "inflight", module |-> CustodialModule,
                        sender |-> "service"]
          /\ executeReturnedAt' = now
          /\ Sleep("recoveryCU", GraceWait)
          /\ Goto("recoveryCU", "finalize")
    /\ UNCHANGED <<scriptVars, now, flow, chainVars, finTx, cancelTx, pgVars, cuVars,
                   flowVars, cancelVars, graceDeadline>>

CuFinalizeRecoveryRequest == FinalizeRecoveryRequest("recoveryCU", RecoveryCUServiceSelector)

CuGetOwners == GetOwners("recoveryCU")

CuNext ==
    \/ CuRequestSignatureChallenge
    \/ CuSubmitSignatureChallenge
    \/ CuCreateAndExecuteRecoveryRequest
    \/ CuFinalizeRecoveryRequest
    \/ CuGetOwners

-----------------------------------------------------------------------------
(* cancel-recovery *)

\* the operator starts the script (again), with the same .env
CancelStart ==
    /\ pc["cancel"] \in {"off", "exit0", "exit1"}
    /\ cancelRuns < MaxCancelRuns
    /\ cancelTx.st # "inflight"
    /\ cancelRuns' = cancelRuns + 1
    /\ pendingSeen' = -1
    /\ walletCreated' = FALSE /\ accountAddress' = NoAddress /\ disposed' = FALSE
    /\ cancelTx' = NoTx
    /\ calls' = [calls EXCEPT !["cancel"] = <<>>]
    /\ addressed' = [addressed EXCEPT !["cancel"] = {}]
    /\ Goto("cancel", "read")
    /\ UNCHANGED <<scriptVars, now, flow, wake, chainVars, svcVars, execTx, finTx, pgVars, cuVars,
                   flowVars, seedAccount, safeAccountAddress, histVars>>

\* Faulty variant: step 2 without the early return
CancelGetRecoveryRequestNoCheck ==
    /\ pc["cancel"] = "read"
    /\ \/ /\ ThrowsAt("cancel", "getRecoveryRequest", ModuleAddress(CancelSelector))
          /\ UNCHANGED <<pendingSeen, walletCreated>>
       \/ /\ CallAt("cancel", "getRecoveryRequest", ModuleAddress(CancelSelector))
          /\ pendingSeen' = executeAfter[ModuleAddress(CancelSelector)]
          /\ Goto("cancel", "getAccount") /\ walletCreated' = TRUE
    /\ UNCHANGED <<scriptVars, now, flow, wake, chainVars, svcVars, txVars, pgVars, cuVars,
                   flowVars, cancelRuns, seedAccount, safeAccountAddress,
                   accountAddress, disposed, histVars>>

\* step 2: read the pending request; nothing pending: return before the wallet exists
CancelGetRecoveryRequest ==
    /\ pc["cancel"] = "read"
    /\ \/ /\ ThrowsAt("cancel", "getRecoveryRequest", ModuleAddress(CancelSelector))
          /\ UNCHANGED <<pendingSeen, walletCreated>>
       \/ /\ CallAt("cancel", "getRecoveryRequest", ModuleAddress(CancelSelector))
          /\ pendingSeen' = executeAfter[ModuleAddress(CancelSelector)]
          /\ IF executeAfter[ModuleAddress(CancelSelector)] = 0
               THEN Goto("cancel", "exit0") /\ UNCHANGED walletCreated
               ELSE Goto("cancel", "getAccount") /\ walletCreated' = TRUE
    /\ UNCHANGED <<scriptVars, now, flow, wake, chainVars, svcVars, txVars, pgVars, cuVars,
                   flowVars, cancelRuns, seedAccount, safeAccountAddress,
                   accountAddress, disposed, histVars>>

\* Faulty variant: the owner check without toLowerCase
OwnerConfirmedCaseSensitive(derived, envAddress) == derived = envAddress

\* Faulty variant: the derived account is not compared with the env address
OwnerConfirmedUnchecked(derived, envAddress) == TRUE

\* the owner check of step 3
OwnerConfirmed(derived, envAddress) == toLowerCase(derived) = toLowerCase(envAddress)

\* step 3: derive the account of the seed phrase and compare it with the env address
CancelGetAccount ==
    /\ pc["cancel"] = "getAccount"
    /\ \/ /\ Throws("cancel", "getAccount")
          /\ UNCHANGED accountAddress
       \/ /\ Call("cancel", "getAccount")
          /\ LET derived == [id |-> seedAccount, form |-> "checksum"]
             IN  /\ accountAddress' = derived
                 /\ IF OwnerConfirmed(derived, safeAccountAddress)
                      THEN Goto("cancel", "send")
                      ELSE Goto("cancel", "exit1")
    /\ UNCHANGED <<scriptVars, now, flow, wake, chainVars, svcVars, txVars, pgVars, cuVars,
                   flowVars, cancelRuns, seedAccount, safeAccountAddress, pendingSeen,
                   walletCreated, disposed, histVars>>

\* step 4: the Safe of the wallet sends cancelRecovery() to the module
CancelSendTransaction ==
    /\ pc["cancel"] = "send"
    /\ \/ /\ ThrowsAt("cancel", "sendTransaction", ModuleAddress(CancelSelector))
          /\ UNCHANGED cancelTx
       \/ /\ CallAt("cancel", "sendTransaction", ModuleAddress(CancelSelector))
          /\ cancelTx' = [st |-> "inflight", module |-> ModuleAddress(CancelSelector),
                          sender |-> accountAddress.id]
          /\ Goto("cancel", "wait")
    /\ UNCHANGED <<scriptVars, now, flow, wake, chainVars, svcVars, execTx, finTx, pgVars, cuVars,
                   flowVars, cancelVars, histVars>>

\* step 5: wait for inclusion; receipt.success = false throws
CancelWaitForUserOperation ==
    /\ pc["cancel"] = "wait"
    /\ \/ Throws("cancel", "waitForUserOperation")
       \/ /\ cancelTx.st = "included"
          /\ Call("cancel", "waitForUserOperation")
          /\ Goto("cancel", "verify")
       \/ /\ cancelTx.st = "reverted"
          /\ Log("cancel", "waitForUserOperation", "failed")
          /\ Goto("cancel", "exit1")
    /\ UNCHANGED <<scriptVars, now, flow, wake, chainVars, svcVars, txVars, pgVars, cuVars,
                   flowVars, cancelVars, histVars>>

\* step 6: read again, dispose account and wallet
CancelVerify ==
    /\ pc["cancel"] = "verify"
    /\ \/ /\ ThrowsAt("cancel", "getRecoveryRequest", ModuleAddress(CancelSelector))
          /\ UNCHANGED disposed
       \/ /\ CallAt("cancel", "getRecoveryRequest", ModuleAddress(CancelSelector))
          /\ disposed' = TRUE
          /\ Goto("cancel", "exit0")
    /\ UNCHANGED <<scriptVars, now, flow, wake, chainVars, svcVars, txVars, pgVars, cuVars,
                   flowVars, cancelRuns, seedAccount, safeAccountAddress, pendingSeen,
                   walletCreated, accountAddress, histVars>>

CancelNext ==
    \/ CancelStart
    \/ CancelGetRecoveryRequest
    \/ CancelGetAccount
    \/ CancelSendTransaction
    \/ CancelWaitForUserOperation
    \/ CancelVerify


-----------------------------------------------------------------------------
(* One script run from its configuration step *)

\* everything a step of a setup or send-userop script leaves alone
scriptIdle == <<now, flow, wake, addressed, chainVars, svcVars, txVars, pgVars, cuVars,
                flowVars, cancelRuns, seedAccount, safeAccountAddress, pendingSeen,
                walletCreated, accountAddress, histVars>>

\* the recovery path a script belongs to (the personal-guardian one by default)
PathOf(r) == IF r \in {"recoveryCU", "enableEmailSms"} THEN "recoveryCU" ELSE "recoveryPG"

\* the module instance of the setup script of that path
SetupModule(r) ==
    ModuleAddress(IF PathOf(r) = "recoveryCU" THEN EnableEmailSmsSelector
                                              ELSE AddGuardianSelector)

\* scripts that generate a seed phrase when SEED_PHRASE is not set
GeneratesSeed == {"addGuardian", "enableEmailSms", "sendSponsored", "sendErc20"}

\* <<module enabled, guardians>> of the Safe when script r starts: a setup script
\* meets a new Safe, a Safe with the module only, or a Safe already set up
SafeStates(r) ==
    CASE r = "addGuardian"    -> {<<FALSE, {}>>, <<TRUE, {}>>, <<TRUE, {"g1", "g2"}>>}
      [] r = "enableEmailSms" -> {<<FALSE, {}>>, <<TRUE, {}>>, <<TRUE, {"gc"}>>}
      [] r \in {"sendSponsored", "sendErc20"} -> {<<FALSE, {}>>}
      [] r = "recoveryCU"     -> {<<TRUE, {"gc"}>>}
      [] OTHER                -> {<<TRUE, {"g1", "g2"}>>}

\* executeAfter of a request executed before cancel-recovery is started
PendingDeadline == 1 + GracePeriodDuration(CancelSelector)

ScriptsInit ==
    /\ now = 1
    /\ running \in Scripts
    /\ flow = PathOf(running)
    /\ env \in Envs
    /\ pc = [s \in Scripts |-> IF s = running THEN "config" ELSE "off"]
    /\ wake = [s \in Scripts |-> [from |-> 0, at |-> 0]]
    /\ calls = [s \in Scripts |-> <<>>]
    /\ addressed = [s \in Scripts |-> {}]
    /\ owners = {"owner"}
    /\ \E st \in SafeStates(running) :
         /\ (running \in GeneratesSeed /\ "SEED_PHRASE" \notin env) => st = <<FALSE, {}>>
         /\ moduleEnabled = [m \in ModuleAddresses |-> m = SetupModule(running) /\ st[1]]
         /\ guardians = [m \in ModuleAddresses |->
                           IF m = SetupModule(running) THEN st[2] ELSE {}]
    /\ threshold = [m \in ModuleAddresses |-> Cardinality(guardians[m])]
    /\ \E pending \in (IF running = "cancel" THEN {0, PendingDeadline} ELSE {0}) :
         /\ executeAfter = [m \in ModuleAddresses |->
                              IF m = SetupModule(running) THEN pending ELSE 0]
         /\ status = IF pending = 0 THEN "NONE" ELSE "EXECUTED"
         /\ approvals = IF pending = 0 THEN {} ELSE {"g1", "g2"}
         /\ reqModule = IF pending = 0 THEN "none" ELSE SetupModule(running)
         /\ execTx = IF pending = 0 THEN NoTx
                     ELSE [st |-> "included", module |-> SetupModule(running),
                           sender |-> "service"]
         /\ executeReturnedAt = IF pending = 0 THEN 0 ELSE 1
         /\ graceDeadline = pending
    /\ finTx = NoTx /\ cancelTx = NoTx
    /\ CASE running = "recoveryPG"  -> guardian1 \in {"g1", "gx"} /\ guardian2 \in {"g1", "g2"}
         \* keys of the env, or generated: a generated key is a new address
         [] running = "addGuardian" ->
              /\ guardian1 \in (IF "GUARDIAN_1_PRIVATE_KEY" \in env THEN {"g1", "g2"}
                                                                     ELSE {"n1"})
              /\ guardian2 \in (IF "GUARDIAN_2_PRIVATE_KEY" \in env THEN {"g1", "g2"}
                                                                     ELSE {"n2"})
         [] OTHER -> guardian1 = "none" /\ guardian2 = "none"
    /\ executedRequest = "unset"
    /\ recoveryRequestEip712Data = NoEip712Data
    /\ guardian1Signature = NoSignature /\ guardian2Signature = NoSignature
    /\ recoveryRequest = NoMessage
    /\ auths = <<>> /\ authIdx = 0
    /\ verificationResult = UndefinedResult
    /\ verifiedOk = {}
    /\ finalizationResult = "unset"
    /\ completed = FALSE
    /\ cancelRuns = 0
    /\ IF running = "cancel"
         THEN /\ seedAccount \in {"safe", "other"}
              /\ \E f \in Forms : safeAccountAddress = [id |-> "safe", form |-> f]
         ELSE /\ seedAccount = "safe"
              /\ safeAccountAddress = [id |-> "safe", form |-> "checksum"]
    /\ pendingSeen = -1
    /\ walletCreated = FALSE /\ accountAddress = NoAddress /\ disposed = FALSE
    /\ asked = {}
    /\ userOp = NoUserOp
    /\ submitted = <<>>
    /\ moduleAlreadyEnabled = "unset"
    /\ choice = NoChoice
    /\ candideGuardianAddress = ""
    /\ activated = {}
    /\ balance \in (IF running = "sendErc20" THEN {0, 1} ELSE {0})

\* the first awaited step of each script after its configuration
FirstStep(s) ==
    CASE s \in Flows       -> "start"
      [] s = "cancel"      -> "read"
      [] s = "setupAlerts" -> "getSubscriptions"
      [] OTHER             -> "getAccount"

\* scripts that ask for the Safe address when SAFE_ACCOUNT_ADDRESS is not set
AsksSafeAddress == {"recoveryPG", "recoveryCU", "setupAlerts"}

\* scripts that construct a WalletManagerEvmErc4337 right after their configuration
\* (cancel-recovery constructs it later, once it has read a pending request)
CreatesWallet == {"addGuardian", "enableEmailSms", "sendSponsored", "sendErc20"}

\* Step 1 of main(): throw when a checked setting is missing, else read the settings
\* and construct the wallet
Configuration(s) ==
    IF CheckedEnvVars(s) \subseteq env
      THEN /\ Goto(s, FirstStep(s))
           /\ asked' = IF s \in AsksSafeAddress /\ "SAFE_ACCOUNT_ADDRESS" \notin env
                         THEN asked \cup {"safeAccountAddress"} ELSE asked
           /\ walletCreated' = (walletCreated \/ s \in CreatesWallet)
      ELSE /\ Goto(s, "exit1")
           /\ UNCHANGED <<asked, walletCreated>>

LoadConfiguration ==
    /\ \E s \in Scripts : pc[s] = "config" /\ Configuration(s)
    /\ UNCHANGED <<now, flow, wake, calls, addressed, chainVars, svcVars, txVars, pgVars,
                   cuVars, flowVars, cancelRuns, seedAccount, safeAccountAddress,
                   pendingSeen, accountAddress, disposed, histVars>>
    /\ UNCHANGED <<running, env, moduleEnabled, userOp, submitted, moduleAlreadyEnabled,
                   choice, candideGuardianAddress, activated, balance>>

\* the bundler includes the UserOperation: the batch is applied as a whole or not at
\* all; it can also fail for a reason of its own (gas, paymaster)
IncludeUserOp ==
    /\ userOp.st = "inflight"
    /\ \/ /\ userOp.module = "none"
          /\ userOp' = [userOp EXCEPT !.st = "included"]
          /\ UNCHANGED <<moduleEnabled, guardians, threshold>>
       \/ /\ userOp.module # "none"
          /\ LET c == ApplyBatch(ChainOf(userOp.module), userOp.txs)
             IN  /\ c.ok
                 /\ moduleEnabled' = [moduleEnabled EXCEPT ![userOp.module] = c.enabled]
                 /\ guardians' = [guardians EXCEPT ![userOp.module] = c.guardians]
                 /\ threshold' = [threshold EXCEPT ![userOp.module] = c.threshold]
          /\ userOp' = [userOp EXCEPT !.st = "included"]
       \/ /\ userOp' = [userOp EXCEPT !.st = "reverted"]
          /\ UNCHANGED <<moduleEnabled, guardians, threshold>>
    /\ UNCHANGED <<now, flow, pc, wake, calls, addressed, executeAfter, owners, svcVars,
                   txVars, pgVars, cuVars, flowVars, cancelVars, histVars>>
    /\ UNCHANGED <<running, env, asked, submitted, moduleAlreadyEnabled, choice,
                   candideGuardianAddress, activated, balance>>

\* wallet.getAccount(0) and account.getAddress()
GetAccount(s, next) ==
    /\ pc[s] = "getAccount"
    /\ \/ Throws(s, "getAccount")
       \/ Call(s, "getAccount") /\ Goto(s, next)
    /\ UNCHANGED <<scriptIdle, disposed>>
    /\ UNCHANGED scriptVars

\* account.sendTransaction(txs): the batch is handed to the bundler as one UserOperation
SendTransaction(s, at, m, txs, next) ==
    /\ pc[s] = at
    /\ \/ /\ Throws(s, "sendTransaction")
          /\ UNCHANGED <<userOp, submitted>>
       \/ /\ Call(s, "sendTransaction")
          /\ userOp' = [st |-> "inflight", module |-> m, txs |-> txs]
          /\ submitted' = Append(submitted, txs)
          /\ Goto(s, next)
    /\ UNCHANGED <<scriptIdle, disposed>>
    /\ UNCHANGED <<running, env, asked, moduleEnabled, moduleAlreadyEnabled, choice,
                   candideGuardianAddress, activated, balance>>

\* waitForUserOperation / response.included(), then the check of receipt.success:
\* the script goes on to `next` or ends at `onFailure`; a script that has nothing
\* left to do after a successful receipt disposes account and wallet
WaitForUserOperation(s, at, next, onFailure) ==
    /\ pc[s] = at
    /\ \/ /\ Throws(s, "waitForUserOperation")
          /\ UNCHANGED disposed
       \/ /\ userOp.st = "included"
          /\ Call(s, "waitForUserOperation")
          /\ disposed' = (disposed \/ next = "exit0")
          /\ Goto(s, next)
       \/ /\ userOp.st = "reverted"
          /\ Log(s, "waitForUserOperation", "failed")
          /\ Goto(s, onFailure)
          /\ UNCHANGED disposed
    /\ UNCHANGED scriptIdle
    /\ UNCHANGED scriptVars

-----------------------------------------------------------------------------
(* add-personal-guardian *)

AgGetAccount == GetAccount("addGuardian", "isModuleEnabled")

\* Faulty variant: the enable-module transaction is pushed without looking at the read
AgTransactionsAlwaysEnable(alreadyEnabled) ==
    <<EnableModuleTx, AddGuardianTx(guardian1, 1), AddGuardianTx(guardian2, 2)>>

\* Faulty variant: the second guardian is added without raising the threshold
AgTransactionsThresholdOne(alreadyEnabled) ==
    (IF alreadyEnabled = "yes" THEN <<>> ELSE <<EnableModuleTx>>)
        \o <<AddGuardianTx(guardian1, 1), AddGuardianTx(guardian2, 1)>>

\* Faulty variant: both guardians are added with the final threshold
AgTransactionsThresholdTwo(alreadyEnabled) ==
    (IF alreadyEnabled = "yes" THEN <<>> ELSE <<EnableModuleTx>>)
        \o <<AddGuardianTx(guardian1, 2), AddGuardianTx(guardian2, 2)>>

\* the transactions array of step 4
AgTransactions(alreadyEnabled) ==
    (IF alreadyEnabled = "yes" THEN <<>> ELSE <<EnableModuleTx>>)
        \o <<AddGuardianTx(guardian1, 1), AddGuardianTx(guardian2, 2)>>

\* Faulty variant: the Safe is taken for a new one whatever the read returns
AgIsModuleEnabledAssumesNew ==
    /\ pc["addGuardian"] = "isModuleEnabled"
    /\ \/ /\ ThrowsAt("addGuardian", "isModuleEnabled", ModuleAddress(AddGuardianSelector))
          /\ UNCHANGED moduleAlreadyEnabled
       \/ /\ CallAt("addGuardian", "isModuleEnabled", ModuleAddress(AddGuardianSelector))
          /\ moduleAlreadyEnabled' = "no"
          /\ Goto("addGuardian", "send")
    /\ UNCHANGED <<now, flow, wake, chainVars, svcVars, txVars, pgVars, cuVars,
                   flowVars, cancelVars, histVars>>
    /\ UNCHANGED <<running, env, asked, moduleEnabled, userOp, submitted, choice,
                   candideGuardianAddress, activated, balance>>

\* step 4: the isModuleEnabled read
AgIsModuleEnabled ==
    /\ pc["addGuardian"] = "isModuleEnabled"
    /\ \/ /\ ThrowsAt("addGuardian", "isModuleEnabled", ModuleAddress(AddGuardianSelector))
          /\ UNCHANGED moduleAlreadyEnabled
       \/ /\ CallAt("addGuardian", "isModuleEnabled", ModuleAddress(AddGuardianSelector))
          /\ moduleAlreadyEnabled' =
                IF moduleEnabled[ModuleAddress(AddGuardianSelector)] THEN "yes" ELSE "no"
          /\ Goto("addGuardian", "send")
    /\ UNCHANGED <<now, flow, wake, chainVars, svcVars, txVars, pgVars, cuVars,
                   flowVars, cancelVars, histVars>>
    /\ UNCHANGED <<running, env, asked, moduleEnabled, userOp, submitted, choice,
                   candideGuardianAddress, activated, balance>>

AgSendTransaction ==
    SendTransaction("addGuardian", "send", ModuleAddress(AddGuardianSelector),
                    AgTransactions(moduleAlreadyEnabled), "wait")

\* Faulty variant: receipt.success is not looked at
AgWaitForUserOperationIgnoresReceipt ==
    WaitForUserOperation("addGuardian", "wait", "verify", "verify")

AgWaitForUserOperation == WaitForUserOperation("addGuardian", "wait", "verify", "exit1")

\* step 7: Promise.all of isGuardian (twice) and threshold, then dispose
AgVerify ==
    /\ pc["addGuardian"] = "verify"
    /\ \/ /\ ThrowsAt("addGuardian", "verifyGuardians", ModuleAddress(AddGuardianSelector))
          /\ UNCHANGED disposed
       \/ /\ CallAt("addGuardian", "verifyGuardians", ModuleAddress(AddGuardianSelector))
          /\ disposed' = TRUE
          /\ Goto("addGuardian", "exit0")
    /\ UNCHANGED <<now, flow, wake, chainVars, svcVars, txVars, pgVars, cuVars,
                   flowVars, cancelRuns, seedAccount, safeAccountAddress, pendingSeen,
                   walletCreated, accountAddress, histVars>>
    /\ UNCHANGED scriptVars

AgNext ==
    \/ AgGetAccount
    \/ AgIsModuleEnabled
    \/ AgSendTransaction
    \/ AgWaitForUserOperation
    \/ AgVerify

-----------------------------------------------------------------------------
(* send-userop-sponsored *)

SsGetAccount == GetAccount("sendSponsored", "send")

SsSendTransaction == SendTransaction("sendSponsored", "send", "none", <<NoOpTx>>, "wait")

SsIncluded == WaitForUserOperation("sendSponsored", "wait", "exit0", "exit1")

SsNext ==
    \/ SsGetAccount
    \/ SsSendTransaction
    \/ SsIncluded

-----------------------------------------------------------------------------
(* send-userop-erc20 *)

SeGetAccount == GetAccount("sendErc20", "balance")

\* the balance check: an account without tokens is asked to be funded
SeGetPaymasterTokenBalance ==
    /\ pc["sendErc20"] = "balance"
    /\ \/ /\ Throws("sendErc20", "getPaymasterTokenBalance")
          /\ UNCHANGED asked
       \/ /\ Call("sendErc20", "getPaymasterTokenBalance")
          /\ IF balance = 0
               THEN asked' = asked \cup {"funded"} /\ Goto("sendErc20", "funding")
               ELSE UNCHANGED asked /\ Goto("sendErc20", "send")
    /\ UNCHANGED <<scriptIdle, disposed>>
    /\ UNCHANGED <<running, env, moduleEnabled, userOp, submitted, moduleAlreadyEnabled,
                   choice, candideGuardianAddress, activated, balance>>

\* Faulty variant: the second read is printed and the operation is sent in any case
SeGetBalanceAfterUnchecked ==
    /\ pc["sendErc20"] = "funding"
    /\ \/ /\ Throws("sendErc20", "getPaymasterTokenBalance")
          /\ UNCHANGED <<balance, disposed>>
       \/ \E b \in {0, 1} :
            /\ balance' = b
            /\ Call("sendErc20", "getPaymasterTokenBalance")
            /\ UNCHANGED disposed
            /\ Goto("sendErc20", "send")
    /\ UNCHANGED scriptIdle
    /\ UNCHANGED <<running, env, asked, moduleEnabled, userOp, submitted,
                   moduleAlreadyEnabled, choice, candideGuardianAddress, activated>>

\* the operator pressed Enter, having funded the account or not; the second read:
\* still no tokens: dispose account and wallet, process.exit(1)
SeGetBalanceAfter ==
    /\ pc["sendErc20"] = "funding"
    /\ \/ /\ Throws("sendErc20", "getPaymasterTokenBalance")
          /\ UNCHANGED <<balance, disposed>>
       \/ \E b \in {0, 1} :
            /\ balance' = b
            /\ Call("sendErc20", "getPaymasterTokenBalance")
            /\ disposed' = (b = 0)
            /\ Goto("sendErc20", IF b = 0 THEN "exit1" ELSE "send")
    /\ UNCHANGED scriptIdle
    /\ UNCHANGED <<running, env, asked, moduleEnabled, userOp, submitted,
                   moduleAlreadyEnabled, choice, candideGuardianAddress, activated>>

SeSendTransaction == SendTransaction("sendErc20", "send", "none", <<NoOpTx>>, "wait")

SeIncluded == WaitForUserOperation("sendErc20", "wait", "report", "exit1")

\* the balance after the operation is printed, account and wallet are disposed
SeReport ==
    /\ pc["sendErc20"] = "report"
    /\ \/ /\ Throws("sendErc20", "getPaymasterTokenBalance")
          /\ UNCHANGED disposed
       \/ /\ Call("sendErc20", "getPaymasterTokenBalance")
          /\ disposed' = TRUE
          /\ Goto("sendErc20", "exit0")
    /\ UNCHANGED scriptIdle
    /\ UNCHANGED scriptVars

SeNext ==
    \/ SeGetAccount
    \/ SeGetPaymasterTokenBalance
    \/ SeGetBalanceAfter
    \/ SeSendTransaction
    \/ SeIncluded
    \/ SeReport


-----------------------------------------------------------------------------
(* enable-email-sms-recovery *)

EnGetAccount == GetAccount("enableEmailSms", "isModuleEnabled")

\* step 3: the module is enabled in a UserOperation of its own, when it is not yet
EnIsModuleEnabled ==
    /\ pc["enableEmailSms"] = "isModuleEnabled"
    /\ \/ /\ ThrowsAt("enableEmailSms", "isModuleEnabled",
                      ModuleAddress(EnableEmailSmsSelector))
          /\ UNCHANGED moduleAlreadyEnabled
       \/ /\ CallAt("enableEmailSms", "isModuleEnabled",
                    ModuleAddress(EnableEmailSmsSelector))
          /\ moduleAlreadyEnabled' =
                IF moduleEnabled[ModuleAddress(EnableEmailSmsSelector)] THEN "yes" ELSE "no"
          /\ Goto("enableEmailSms",
                  IF moduleEnabled[ModuleAddress(EnableEmailSmsSelector)]
                    THEN "choice" ELSE "sendEnable")
    /\ UNCHANGED <<now, flow, wake, chainVars, svcVars, txVars, pgVars, cuVars,
                   flowVars, cancelVars, histVars>>
    /\ UNCHANGED <<running, env, asked, moduleEnabled, userOp, submitted, choice,
                   candideGuardianAddress, activated, balance>>

EnSendEnableModule ==
    SendTransaction("enableEmailSms", "sendEnable", ModuleAddress(EnableEmailSmsSelector),
                    <<EnableModuleTx>>, "waitEnable")

\* a failed receipt is logged and main() returns
EnWaitEnableModule == WaitForUserOperation("enableEmailSms", "waitEnable", "choice", "exit0")

\* the step that follows the channel choice c of script s
AfterChoice(c) ==
    IF InvalidChoice(c) THEN "exit0"
    ELSE IF EnableEmail(c) THEN "createEmail"
    ELSE IF EnableSms(c) THEN "createSms"
    ELSE "noChannel"

\* step 4: the operator types a choice, then the address of each chosen channel
EnChoose ==
    /\ pc["enableEmailSms"] = "choice"
    /\ \E c \in Choices :
         /\ choice' = c
         /\ asked' = asked \cup {"choice"}
                       \cup (IF ~InvalidChoice(c) /\ EnableSms(c) THEN {"phone"} ELSE {})
         /\ Goto("enableEmailSms",
                 IF AfterChoice(c) = "noChannel" THEN "addGuardian" ELSE AfterChoice(c))
    /\ UNCHANGED <<calls, scriptIdle, disposed>>
    /\ UNCHANGED <<running, env, moduleEnabled, userOp, submitted, moduleAlreadyEnabled,
                   candideGuardianAddress, activated, balance>>

\* createRegistrationTo{Email,Sms}Recovery, then the prompt for the OTP
EnCreateRegistration(at, name, next) ==
    /\ pc["enableEmailSms"] = at
    /\ \/ /\ Throws("enableEmailSms", name)
          /\ UNCHANGED asked
       \/ /\ Call("enableEmailSms", name)
          /\ asked' = asked \cup {"otp"}
          /\ Goto("enableEmailSms", next)
    /\ UNCHANGED <<scriptIdle, disposed>>
    /\ UNCHANGED <<running, env, moduleEnabled, userOp, submitted, moduleAlreadyEnabled,
                   choice, candideGuardianAddress, activated, balance>>

EnCreateRegistrationToEmailRecovery ==
    EnCreateRegistration("createEmail", "createRegistrationToEmailRecovery", "submitEmail")

EnCreateRegistrationToSmsRecovery ==
    EnCreateRegistration("createSms", "createRegistrationToSmsRecovery", "submitSms")

\* submitRegistrationChallenge of the email registration
EnSubmitEmailChallenge ==
    /\ pc["enableEmailSms"] = "submitEmail"
    /\ \/ /\ Throws("enableEmailSms", "submitRegistrationChallenge")
          /\ UNCHANGED candideGuardianAddress
       \/ /\ Call("enableEmailSms", "submitRegistrationChallenge")
          /\ \E ga \in {"gc", ""} : candideGuardianAddress' = ga
          /\ Goto("enableEmailSms", IF EnableSms(choice) THEN "createSms" ELSE "addGuardian")
    /\ UNCHANGED <<scriptIdle, disposed>>
    /\ UNCHANGED <<running, env, asked, moduleEnabled, userOp, submitted,
                   moduleAlreadyEnabled, choice, activated, balance>>

\* Faulty variant: the guardian address of the SMS registration replaces the other
EnSubmitSmsChallengeOverwrites ==
    /\ pc["enableEmailSms"] = "submitSms"
    /\ \/ /\ Throws("enableEmailSms", "submitRegistrationChallenge")
          /\ UNCHANGED candideGuardianAddress
       \/ /\ Call("enableEmailSms", "submitRegistrationChallenge")
          /\ \E ga \in {"gc", "gs", ""} : candideGuardianAddress' = ga
          /\ Goto("enableEmailSms", "addGuardian")
    /\ UNCHANGED <<scriptIdle, disposed>>
    /\ UNCHANGED <<running, env, asked, moduleEnabled, userOp, submitted,
                   moduleAlreadyEnabled, choice, activated, balance>>

\* submitRegistrationChallenge of the SMS registration: its guardian address (the
\* service is free to return any) is kept only when email was not chosen
EnSubmitSmsChallenge ==
    /\ pc["enableEmailSms"] = "submitSms"
    /\ \/ /\ Throws("enableEmailSms", "submitRegistrationChallenge")
          /\ UNCHANGED candideGuardianAddress
       \/ /\ Call("enableEmailSms", "submitRegistrationChallenge")
          /\ \E ga \in {"gc", "gs", ""} :
               candideGuardianAddress' =
                   IF ~EnableEmail(choice) THEN ga ELSE candideGuardianAddress
          /\ Goto("enableEmailSms", "addGuardian")
    /\ UNCHANGED <<scriptIdle, disposed>>
    /\ UNCHANGED <<running, env, asked, moduleEnabled, userOp, submitted,
                   moduleAlreadyEnabled, choice, activated, balance>>

\* step 6: no guardian address: return; else add the guardian with threshold 1
EnAddGuardian ==
    \/ /\ pc["enableEmailSms"] = "addGuardian"
       /\ candideGuardianAddress = ""
       /\ Goto("enableEmailSms", "exit0")
       /\ UNCHANGED <<calls, scriptIdle, disposed, scriptVars>>
    \/ /\ candideGuardianAddress # ""
       /\ SendTransaction("enableEmailSms", "addGuardian",
                          ModuleAddress(EnableEmailSmsSelector),
                          <<AddGuardianTx(candideGuardianAddress, 1)>>, "waitAdd")

EnWaitAddGuardian ==
    WaitForUserOperation("enableEmailSms", "waitAdd", "registrations", "exit0")

\* step 7: getRegistrations, then dispose
EnGetRegistrations ==
    /\ pc["enableEmailSms"] = "registrations"
    /\ \/ /\ Throws("enableEmailSms", "getRegistrations")
          /\ UNCHANGED disposed
       \/ /\ Call("enableEmailSms", "getRegistrations")
          /\ disposed' = TRUE
          /\ Goto("enableEmailSms", "exit0")
    /\ UNCHANGED scriptIdle
    /\ UNCHANGED scriptVars

EnNext ==
    \/ EnGetAccount
    \/ EnIsModuleEnabled
    \/ EnSendEnableModule
    \/ EnWaitEnableModule
    \/ EnChoose
    \/ EnCreateRegistrationToEmailRecovery
    \/ EnSubmitEmailChallenge
    \/ EnCreateRegistrationToSmsRecovery
    \/ EnSubmitSmsChallenge
    \/ EnAddGuardian
    \/ EnWaitAddGuardian
    \/ EnGetRegistrations

-----------------------------------------------------------------------------
(* setup-alerts *)

\* getActiveSubscriptions, at step 3 and again at step 7
AlGetActiveSubscriptions(at, next) ==
    /\ pc["setupAlerts"] = at
    /\ \/ Throws("setupAlerts", "getActiveSubscriptions")
       \/ Call("setupAlerts", "getActiveSubscriptions") /\ Goto("setupAlerts", next)
    /\ UNCHANGED <<scriptIdle, disposed>>
    /\ UNCHANGED scriptVars

AlCheckExisting == AlGetActiveSubscriptions("getSubscriptions", "choice")

AlChoose ==
    /\ pc["setupAlerts"] = "choice"
    /\ \E c \in Choices :
         /\ choice' = c
         /\ asked' = asked \cup {"choice"}
         /\ Goto("setupAlerts",
                 IF AfterChoice(c) = "noChannel" THEN "verify" ELSE AfterChoice(c))
    /\ UNCHANGED <<calls, scriptIdle, disposed>>
    /\ UNCHANGED <<running, env, moduleEnabled, userOp, submitted, moduleAlreadyEnabled,
                   candideGuardianAddress, activated, balance>>

\* create{Email,}Subscription, then the prompt for the OTP
AlCreateSubscription(at, name, next) ==
    /\ pc["setupAlerts"] = at
    /\ \/ /\ Throws("setupAlerts", name)
          /\ UNCHANGED asked
       \/ /\ Call("setupAlerts", name)
          /\ asked' = asked \cup {"otp"}
          /\ Goto("setupAlerts", next)
    /\ UNCHANGED <<scriptIdle, disposed>>
    /\ UNCHANGED <<running, env, moduleEnabled, userOp, submitted, moduleAlreadyEnabled,
                   choice, candideGuardianAddress, activated, balance>>

AlCreateEmailSubscription ==
    AlCreateSubscription("createEmail", "createEmailSubscription", "activateEmail")

AlCreateSmsSubscription ==
    AlCreateSubscription("createSms", "createSubscription", "activateSms")

\* activateSubscription inside try/catch: an error is printed, a falsy result is
\* printed, and in every case the script goes on
AlActivateSubscription(at, channel, next) ==
    /\ pc["setupAlerts"] = at
    /\ \/ /\ Log("setupAlerts", "activateSubscription", "throw")
          /\ UNCHANGED activated
       \/ /\ Log("setupAlerts", "activateSubscription", "rejected")
          /\ UNCHANGED activated
       \/ /\ Call("setupAlerts", "activateSubscription")
          /\ activated' = activated \cup {channel}
    /\ Goto("setupAlerts", next)
    /\ UNCHANGED <<scriptIdle, disposed>>
    /\ UNCHANGED <<running, env, asked, moduleEnabled, userOp, submitted,
                   moduleAlreadyEnabled, choice, candideGuardianAddress, balance>>

AlActivateEmail ==
    AlActivateSubscription("activateEmail", "email",
                           IF EnableSms(choice) THEN "createSms" ELSE "verify")

AlActivateSms == AlActivateSubscription("activateSms", "sms", "verify")

AlVerify == AlGetActiveSubscriptions("verify", "exit0")

AlNext ==
    \/ AlCheckExisting
    \/ AlChoose
    \/ AlCreateEmailSubscription
    \/ AlActivateEmail
    \/ AlCreateSmsSubscription
    \/ AlActivateSms
    \/ AlVerify

-----------------------------------------------------------------------------
Next ==
    \/ Tick
    \/ IncludeExecute
    \/ IncludeFinalize
    \/ IncludeCancel
    \/ PgNext
    \/ CuNext
    \/ CancelNext

Spec == Init /\ [][Next]_vars

\* a run of one script, whichever, from its configuration step
ScriptsNext ==
    \/ Tick
    \/ IncludeExecute
    \/ IncludeFinalize
    \/ IncludeCancel
    \/ IncludeUserOp
    \/ LoadConfiguration
    \/ PgNext
    \/ CuNext
    \/ CancelGetRecoveryRequest
    \/ CancelGetAccount
    \/ CancelSendTransaction
    \/ CancelWaitForUserOperation
    \/ CancelVerify
    \/ AgNext
    \/ EnNext
    \/ AlNext
    \/ SsNext
    \/ SeNext

ScriptsSpec == ScriptsInit /\ [][ScriptsNext]_vars

TypeOK ==
    /\ now \in 1..(MaxTime + 1)
    /\ flow \in Flows
    /\ status \in {"NONE", "PENDING", "EXECUTED", "FINALIZED", "CANCELLED"}
    /\ \A m \in ModuleAddresses : executeAfter[m] \in Nat
    /\ owners \in {{"owner"}, {"newOwner"}}

-----------------------------------------------------------------------------
(* Reading the call log *)
Called(s, name)   == \E i \in 1..Len(calls[s]) : calls[s][i].name = name
Returned(s, name) == \E i \in 1..Len(calls[s]) :
                        calls[s][i].name = name /\ calls[s][i].result = "ok"
Count(s, name)    == Cardinality({i \in 1..Len(calls[s]) : calls[s][i].name = name})
NoThrow(s)        == \A i \in 1..Len(calls[s]) : calls[s][i].result # "throw"
Range(q)          == {q[i] : i \in 1..Len(q)}
\* call a returned, and did so before call b was made
ReturnedBefore(s, a, b) ==
    \A j \in 1..Len(calls[s]) :
        calls[s][j].name = b =>
            \E i \in 1..(j - 1) : calls[s][i].name = a /\ calls[s][i].result = "ok"

-----------------------------------------------------------------------------
(* C1: in the email/SMS flow createAndExecuteRecoveryRequest (and any later  *)
(* finalize) is called only if every channel of signatureRequest.auths had  *)
(* its OTP submission return success in this run; a run in which some       *)
(* submission was rejected makes no execute call and no finalize call.      *)
C1_ExecuteOnlyAfterAllChannelsVerified ==
    LET executed == Called("recoveryCU", "createAndExecuteRecoveryRequest")
                    \/ Called("recoveryCU", "finalizeRecoveryRequest")
        rejected == \E i \in 1..Len(calls["recoveryCU"]) :
                        calls["recoveryCU"][i].result = "rejected"
    IN  /\ executed => /\ auths # <<>>
                       /\ Range(auths) = verifiedOk
                       /\ Count("recoveryCU", "submitCustodialGuardianSignatureChallenge")
                            = Len(auths)
        /\ rejected => ~executed

\* both channels verified, then the execute call was made
C1_Witness ==
    /\ auths = <<"email", "sms">>
    /\ verifiedOk = {"email", "sms"}
    /\ Returned("recoveryCU", "createAndExecuteRecoveryRequest")

-----------------------------------------------------------------------------
(* C2: in the personal-guardian flow (two guardians, guardian threshold 2)   *)
(* executeRecoveryRequest is never called before createRecoveryRequest       *)
(* (guardian 1) and submitGuardianSignatureForRecoveryRequest (guardian 2)   *)
(* have both returned; an execute attempted with fewer approvals than the    *)
(* threshold is rejected and leaves the request PENDING, nothing submitted.  *)
C2_ExecuteOnlyAfterBothSignatures ==
    /\ ReturnedBefore("recoveryPG", "createRecoveryRequest",
                      "submitGuardianSignatureForRecoveryRequest")
    /\ ReturnedBefore("recoveryPG", "createRecoveryRequest", "executeRecoveryRequest")
    /\ ReturnedBefore("recoveryPG", "submitGuardianSignatureForRecoveryRequest",
                      "executeRecoveryRequest")
    /\ Called("recoveryPG", "executeRecoveryRequest") =>
          /\ {guardian1, guardian2} \subseteq approvals
          /\ Cardinality(approvals) < threshold[reqModule] =>
                /\ status = "PENDING"
                /\ execTx.st = "none"
                /\ ~Returned("recoveryPG", "executeRecoveryRequest")

\* two distinct guardians signed and the execute call was accepted
C2_Witness ==
    /\ approvals = {"g1", "g2"}
    /\ threshold[reqModule] = 2
    /\ Returned("recoveryPG", "executeRecoveryRequest")
    /\ status = "EXECUTED"

-----------------------------------------------------------------------------
(* C3: a request becomes FINALIZED only from EXECUTED and only at or after   *)
(* its grace deadline; the owners of the Safe change only by that step; a    *)
(* finalize call made before the deadline is rejected (falsy or error) and   *)
(* changes neither the status, nor the owners, nor submits anything.         *)
C3_FinalizeStep ==
    /\ (status' = "FINALIZED" /\ status # "FINALIZED") =>
          /\ status = "EXECUTED"
          /\ graceDeadline # 0
          /\ now >= graceDeadline
    /\ owners' # owners => (status' = "FINALIZED" /\ status = "EXECUTED")
    /\ (/\ calls'[flow] # calls[flow]
        /\ calls'[flow][Len(calls'[flow])].name = "finalizeRecoveryRequest"
        /\ (graceDeadline = 0 \/ now < graceDeadline)) =>
          /\ calls'[flow][Len(calls'[flow])].result \in {"falsy", "throw"}
          /\ status' = status
          /\ owners' = owners
          /\ finTx' = finTx

\* C3: every step finalizes only an EXECUTED request whose deadline has passed, and
\* a finalize call before the deadline is rejected without any change
C3_FinalizeOnlyAfterDeadline == [][C3_FinalizeStep]_vars

\* a finalize call was made before the deadline of the executed request and rejected
C3_Witness ==
    /\ status = "EXECUTED"
    /\ finalizationResult = "falsy"
    /\ now < graceDeadline
    /\ owners = {"owner"}

-----------------------------------------------------------------------------
\* the selector of the service object a flow finalizes with
FinalizeSelector(f) ==
    IF f = "recoveryPG" THEN RecoveryPGServiceSelector ELSE RecoveryCUServiceSelector

(* C4 (as stated): in both flows the suspension before the finalize call is  *)
(* the duration of the configured grace-period policy.                       *)
C4_WaitIsPolicyDuration ==
    \A f \in Flows :
        pc[f] = "finalize" =>
            wake[f].at - wake[f].from = GracePeriodDuration(FinalizeSelector(f))

(* C4 (amended): in both flows the suspension before the finalize call is a  *)
(* fixed 4 minutes that starts after the execute call returned; it is not    *)
(* the policy's duration but is never shorter than the duration of the       *)
(* configured policy (3 minutes).                                            *)
C4_WaitCoversPolicyDuration ==
    \A f \in Flows :
        pc[f] = "finalize" =>
            /\ executeReturnedAt # 0
            /\ wake[f].from >= executeReturnedAt
            /\ wake[f].at - wake[f].from >= GracePeriodDuration(FinalizeSelector(f))
            /\ wake[f].at - executeReturnedAt >= GracePeriodDuration(FinalizeSelector(f))

\* the grace wait is over and the flow is about to call finalize
C4_Witness ==
    /\ pc[flow] = "finalize"
    /\ now = wake[flow].at
    /\ wake[flow].at - wake[flow].from > GracePeriodDuration(FinalizeSelector(flow))

-----------------------------------------------------------------------------
(* C5 (as stated): the personal-guardian flow calls finalizeRecoveryRequest  *)
(* only for a request it has observed in status EXECUTED.                    *)
C5_FinalizeOnlyIfObservedExecuted ==
    Called("recoveryPG", "finalizeRecoveryRequest") => executedRequest = "EXECUTED"

(* C5 (amended): the personal-guardian flow calls finalizeRecoveryRequest    *)
(* only after executeRecoveryRequest and the read of the executed request    *)
(* have returned, and whatever that read showed: once the read has returned, *)
(* the run does not end before the finalize call is made.                    *)
C5_FinalizeWhateverTheReadShows ==
    /\ ReturnedBefore("recoveryPG", "executeRecoveryRequest", "finalizeRecoveryRequest")
    /\ ReturnedBefore("recoveryPG", "getExecutedRecoveryRequestForLatestNonce",
                      "finalizeRecoveryRequest")
    /\ Called("recoveryPG", "finalizeRecoveryRequest") =>
            executedRequest \in {"EXECUTED", "null"}
    /\ (executedRequest # "unset" /\ Terminated("recoveryPG")) =>
            Called("recoveryPG", "finalizeRecoveryRequest")

\* finalize was called although the read did not show EXECUTED
C5_Witness ==
    /\ executedRequest = "null"
    /\ Called("recoveryPG", "finalizeRecoveryRequest")

-----------------------------------------------------------------------------
(* C6: cancel-recovery creates the wallet and submits the cancellation only  *)
(* after it has read a pending request (executeAfter # 0); when it reads     *)
(* executeAfter = 0 it returns at once: no wallet, no further call, nothing  *)
(* submitted.                                                                *)
C6_CancelOnlyWhenPending ==
    /\ (\/ walletCreated
        \/ cancelTx.st # "none"
        \/ Called("cancel", "getAccount")
        \/ Called("cancel", "sendTransaction")) => pendingSeen > 0
    /\ pendingSeen = 0 =>
          /\ pc["cancel"] = "exit0"
          /\ ~walletCreated
          /\ cancelTx = NoTx
          /\ Len(calls["cancel"]) = 1

\* a second run of the script, after the first one cancelled the request
C6_Witness ==
    /\ status = "CANCELLED"
    /\ cancelRuns = 2
    /\ pendingSeen = 0

-----------------------------------------------------------------------------
(* C7: FINALIZED and CANCELLED are terminal: no step of the recovery flows,  *)
(* of cancel-recovery or of the chain changes the status of a request that   *)
(* is finalized or cancelled.                                                *)
C7_TerminalStep ==
    status \in {"FINALIZED", "CANCELLED"} =>
        /\ status' = status
        /\ approvals' = approvals
        /\ reqModule' = reqModule

\* C7: no step changes a request that is FINALIZED or CANCELLED
C7_TerminalStatus == [][C7_TerminalStep]_vars

\* a finalize transaction that was in flight when the cancellation landed reverted
C7_Witness ==
    /\ status = "CANCELLED"
    /\ finTx.st = "reverted"

-----------------------------------------------------------------------------
(* C8: whatever the interleaving of a recovery flow and cancel-recovery, a   *)
(* request whose cancellation was confirmed on-chain is never finalized and  *)
(* does not replace the owners of the Safe; the cancellation and the         *)
(* finalization are never both applied.                                      *)
C8_CancelBeatsFinalize ==
    /\ ~(cancelTx.st = "included" /\ finTx.st = "included")
    /\ status = "CANCELLED" => (owners = {"owner"} /\ finTx.st # "included")
    /\ owners = {"newOwner"} <=> status = "FINALIZED"

\* the cancellation landed during the grace wait; the finalize call made after the
\* deadline was refused
C8_Witness ==
    /\ status = "CANCELLED"
    /\ cancelTx.st = "included"
    /\ finalizationResult = "falsy"
    /\ graceDeadline # 0
    /\ wake[flow].at >= graceDeadline
    /\ pc[flow] = "exit0"

-----------------------------------------------------------------------------
(* C9 (as stated): cancel-recovery performs no client-side authorization     *)
(* check: whenever it has read a pending request (and no call failed), the   *)
(* cancellation is submitted.                                                *)
C9_SubmittedWheneverPending ==
    (Terminated("cancel") /\ pendingSeen > 0 /\ NoThrow("cancel")) =>
        Called("cancel", "sendTransaction")

(* C9 (amended): cancel-recovery performs one client-side check: when it has *)
(* read a pending request and no call failed, the cancellation is submitted  *)
(* exactly if the account derived from the seed phrase is the Safe of        *)
(* SAFE_ACCOUNT_ADDRESS (whatever the letter case of either); otherwise the  *)
(* script fails before submitting. The sender of a submitted cancellation is *)
(* always that Safe.                                                         *)
C9_SubmittedIffOwnerConfirmed ==
    /\ (Terminated("cancel") /\ pendingSeen > 0 /\ NoThrow("cancel")) =>
          /\ Called("cancel", "sendTransaction") <=> seedAccount = safeAccountAddress.id
          /\ seedAccount # safeAccountAddress.id => pc["cancel"] = "exit1"
    /\ cancelTx.st # "none" => cancelTx.sender = safeAccountAddress.id

\* a pending request was read, the seed phrase derived another account: nothing sent
C9_Witness ==
    /\ pendingSeen > 0
    /\ accountAddress.id = "other"
    /\ pc["cancel"] = "exit1"
    /\ NoThrow("cancel")
    /\ cancelTx.st = "none"

-----------------------------------------------------------------------------
\* the module instance on which the setup script registered the guardians
SetupModules == {m \in ModuleAddresses : guardians[m] # {}}

(* C10: on the personal-guardian path every call of the recovery flow (SRM   *)
(* object and RecoveryByGuardian service) and of cancel-recovery goes to the *)
(* module instance on which add-personal-guardian registered the guardians;  *)
(* two different selectors denote two different module addresses.            *)
C10_SameModuleEverywhere ==
    /\ flow = "recoveryPG" =>
          /\ SetupModules = {ModuleAddress(AddGuardianSelector)}
          /\ addressed["recoveryPG"] \subseteq SetupModules
          /\ addressed["cancel"] \subseteq SetupModules
          /\ reqModule # "none" => reqModule \in SetupModules
          /\ execTx.st # "none" => execTx.module \in SetupModules
          /\ finTx.st # "none" => finTx.module \in SetupModules
          /\ cancelTx.st # "none" => cancelTx.module \in SetupModules
    /\ \A s1, s2 \in Selectors : s1 # s2 => ModuleAddress(s1) # ModuleAddress(s2)

\* the flow has executed and finalized on the module, cancel-recovery has read it
C10_Witness ==
    /\ flow = "recoveryPG"
    /\ Returned("recoveryPG", "finalizeRecoveryRequest")
    /\ addressed["recoveryPG"] = {ModuleAddress(AddGuardianSelector)}
    /\ addressed["cancel"] = {ModuleAddress(AddGuardianSelector)}

-----------------------------------------------------------------------------
(* C11 (as stated): on the email/SMS path every service object that executes *)
(* or finalizes the recovery is built with the policy the guardian was       *)
(* registered with: the create-and-execute call and the finalize call are    *)
(* both made on an object of that policy.                                    *)
C11_EveryServiceObjectHasThePolicy ==
    flow = "recoveryCU" =>
        /\ Called("recoveryCU", "createAndExecuteRecoveryRequest") =>
              ModuleAddress(EnableEmailSmsSelector) \in addressed["recoveryCU"]
        /\ Called("recoveryCU", "finalizeRecoveryRequest") =>
              addressed["recoveryCU"] = {ModuleAddress(EnableEmailSmsSelector)}

(* C11 (amended): on the email/SMS path the policy of the module the         *)
(* guardian was registered on and the policy of the RecoveryByGuardian       *)
(* object that finalizes are the same, so finalize targets the module on     *)
(* which the guardian was added; the RecoveryByCustodialGuardian object that *)
(* creates and executes is built without a policy and directs no call to a   *)
(* module of the script's choosing.                                          *)
C11_FinalizeTargetsRegistrationModule ==
    flow = "recoveryCU" =>
        /\ SetupModules = {ModuleAddress(EnableEmailSmsSelector)}
        /\ addressed["recoveryCU"] \subseteq SetupModules
        /\ Called("recoveryCU", "finalizeRecoveryRequest") <=>
              addressed["recoveryCU"] = SetupModules
        /\ finTx.st # "none" => finTx.module \in SetupModules

\* the email/SMS flow finalized on the module of the custodial guardian
C11_Witness ==
    /\ flow = "recoveryCU"
    /\ status = "FINALIZED"
    /\ finTx.module = ModuleAddress(EnableEmailSmsSelector)
    /\ "gc" \in guardians[finTx.module]

-----------------------------------------------------------------------------
(* C14: within one run of either recovery flow the execute operation is      *)
(* called at most once and finalize at most once, whatever the outcomes; no  *)
(* call that failed is made again (only the OTP submission is repeated, once *)
(* per channel, and only after a submission that succeeded).                 *)
C14_AtMostOneExecuteAndFinalize ==
    \A f \in Flows :
        /\ Count(f, "executeRecoveryRequest") <= 1
        /\ Count(f, "createAndExecuteRecoveryRequest") <= 1
        /\ Count(f, "finalizeRecoveryRequest") <= 1
        /\ \A i, j \in 1..Len(calls[f]) :
              (i < j /\ calls[f][i].name = calls[f][j].name) =>
                  /\ calls[f][i].name = "submitCustodialGuardianSignatureChallenge"
                  /\ calls[f][i].result = "ok"

\* the execute call threw and the run ended there
C14_Witness ==
    /\ pc[flow] = "exit1"
    /\ Len(calls[flow]) > 0
    /\ calls[flow][Len(calls[flow])].name
          \in {"executeRecoveryRequest", "createAndExecuteRecoveryRequest"}
    /\ calls[flow][Len(calls[flow])].result = "throw"

-----------------------------------------------------------------------------
(* C15: in both recovery flows, when finalizeRecoveryRequest returns a falsy *)
(* result the flow stops: finalize is not called again, the owners of the    *)
(* Safe are not read and the recovery is not reported as complete.           *)
C15_FalsyFinalizeStops ==
    finalizationResult = "falsy" =>
        /\ Terminated(flow)
        /\ calls[flow][Len(calls[flow])] =
              [name |-> "finalizeRecoveryRequest", result |-> "falsy"]
        /\ Count(flow, "finalizeRecoveryRequest") = 1
        /\ ~Called(flow, "getOwners")
        /\ ~completed

\* the email/SMS flow was refused the finalization of a cancelled request
C15_Witness ==
    /\ flow = "recoveryCU"
    /\ finalizationResult = "falsy"
    /\ Terminated("recoveryCU")
    /\ executeAfter[ModuleAddress(RecoveryCUServiceSelector)] = 0
    /\ ~completed

-----------------------------------------------------------------------------
(* C17: in the custodial flow no OTP challenge is retried: the k-th          *)
(* submission of a run is that of the k-th channel, so each challenge is     *)
(* submitted at most once, and a rejected submission is the last call of the *)
(* run: no remaining channel is prompted or submitted.                       *)
C17_NoOtpRetry ==
    LET n == Count("recoveryCU", "submitCustodialGuardianSignatureChallenge")
    IN  /\ n <= Len(auths)
        /\ n <= authIdx
        /\ \A i \in 1..Len(calls["recoveryCU"]) :
              calls["recoveryCU"][i].result = "rejected" =>
                  /\ i = Len(calls["recoveryCU"])
                  /\ Terminated("recoveryCU")
                  /\ n = authIdx

\* the code of the first of two channels was rejected: the second was never submitted
C17_Witness ==
    /\ auths = <<"email", "sms">>
    /\ authIdx = 1
    /\ Count("recoveryCU", "submitCustodialGuardianSignatureChallenge") = 1
    /\ calls["recoveryCU"][Len(calls["recoveryCU"])].result = "rejected"
    /\ pc["recoveryCU"] = "exit0"

-----------------------------------------------------------------------------
\* the last call of script s
LastCall(s) == calls[s][Len(calls[s])]

(* C12: in every script, when a setting the script requires is missing, the  *)
(* script terminates with a failure before it makes any remote call, submits *)
(* anything or prompts the operator.                                         *)
C12_MissingSettingStopsBeforeAnything ==
    \A s \in Scripts :
        (s = running /\ ~(RequiredEnvVars(s) \subseteq env)) =>
            /\ calls[s] = <<>>
            /\ asked = {}
            /\ submitted = <<>>
            /\ Terminated(s) => pc[s] = "exit1"

-----------------------------------------------------------------------------
(* C13 (as stated): in every script, once a remote call has failed (it threw *)
(* or reported the rejection of an OTP), the script makes no further remote  *)
(* call in that run: the failed call is the last one and the run is over.    *)
C13_FailureIsLastCall ==
    \A s \in Scripts : \A i \in 1..Len(calls[s]) :
        calls[s][i].result \in {"throw", "rejected"} =>
            (i = Len(calls[s]) /\ Terminated(s))

(* C13 (amended): the same, except for the activateSubscription calls of     *)
(* setup-alerts, whose error or rejection is caught and printed while the    *)
(* script goes on; any other failed call of any script is the last one.      *)
C13_FailureIsLastCallExceptActivation ==
    \A s \in Scripts : \A i \in 1..Len(calls[s]) :
        (/\ calls[s][i].result \in {"throw", "rejected"}
         /\ ~(s = "setupAlerts" /\ calls[s][i].name = "activateSubscription")) =>
            (i = Len(calls[s]) /\ Terminated(s))

\* setup-alerts went on to the SMS subscription after the email activation failed
C13_Witness ==
    /\ calls["setupAlerts"] # <<>>
    /\ \E i \in 1..Len(calls["setupAlerts"]) :
          /\ calls["setupAlerts"][i].name = "activateSubscription"
          /\ calls["setupAlerts"][i].result \in {"throw", "rejected"}
          /\ i < Len(calls["setupAlerts"])
          /\ calls["setupAlerts"][i + 1].name = "createSubscription"
    /\ pc["setupAlerts"] = "exit0"

-----------------------------------------------------------------------------
(* C16 (as stated): in every script that submits a UserOperation, a receipt  *)
(* with success = false ends the run as a failure (non-zero exit) and is the *)
(* last call of the run.                                                     *)
C16_FailedReceiptExitsNonZero ==
    \A s \in Scripts : \A i \in 1..Len(calls[s]) :
        calls[s][i].result = "failed" =>
            (i = Len(calls[s]) /\ pc[s] = "exit1")

(* C16 (amended): a receipt with success = false ends the run and is its     *)
(* last call, nothing is submitted after it; the run ends as a failure (exit *)
(* 1) in every script but enable-email-sms-recovery, which prints the        *)
(* failure and returns (exit 0).                                             *)
C16_FailedReceiptStops ==
    \A s \in Scripts : \A i \in 1..Len(calls[s]) :
        calls[s][i].result = "failed" =>
            /\ i = Len(calls[s])
            /\ pc[s] = IF s = "enableEmailSms" THEN "exit0" ELSE "exit1"
            /\ userOp.st = "reverted" \/ cancelTx.st = "reverted"

\* enable-email-sms-recovery returned after the guardian was not added
C16_Witness ==
    /\ pc["enableEmailSms"] = "exit0"
    /\ calls["enableEmailSms"] # <<>>
    /\ LastCall("enableEmailSms").result = "failed"
    /\ userOp.st = "reverted"
    /\ userOp.txs = <<AddGuardianTx("gc", 1)>>

-----------------------------------------------------------------------------
\* the batches submitted so far that hold an enable-module transaction
EnableBatches == {i \in 1..Len(submitted) : EnableModuleTx \in Range(submitted[i])}

(* C18: both setup scripts submit the enable-module transaction only when    *)
(* the isModuleEnabled read of the run returned false; when it returned true *)
(* no enable-module transaction is submitted, and a run submits it at most   *)
(* once, so an enabled module is never enabled again.                        *)
C18_EnableOnlyWhenReadFalse ==
    running \in {"addGuardian", "enableEmailSms"} =>
        /\ EnableBatches # {} => moduleAlreadyEnabled = "no"
        /\ moduleAlreadyEnabled = "yes" =>
              (EnableBatches = {} /\ moduleEnabled[SetupModule(running)])
        /\ Cardinality(EnableBatches) <= 1
        /\ submitted # <<>> => moduleAlreadyEnabled # "unset"

\* the module was enabled already: the guardians were added without enabling it
C18_Witness ==
    /\ running = "addGuardian"
    /\ moduleAlreadyEnabled = "yes"
    /\ userOp.st = "included"
    /\ submitted = <<userOp.txs>>
    /\ Len(userOp.txs) = 2

-----------------------------------------------------------------------------
(* C19: add-personal-guardian submits one UserOperation whose transactions   *)
(* are, in this order, enable-module (only if not yet enabled), add guardian *)
(* 1 with threshold 1, add guardian 2 with threshold 2; the batch is applied *)
(* as a whole: every step that changes the guardians adds both guardians and *)
(* sets the threshold to 2, so no state has one of them only or threshold 1. *)
C19_Step ==
    running = "addGuardian" =>
        LET m == ModuleAddress(AddGuardianSelector)
        IN  /\ Len(submitted') <= 1
            /\ Len(submitted') = 1 =>
                  submitted'[1] =
                      IF moduleAlreadyEnabled' = "yes"
                        THEN <<AddGuardianTx(guardian1, 1), AddGuardianTx(guardian2, 2)>>
                        ELSE <<EnableModuleTx, AddGuardianTx(guardian1, 1),
                               AddGuardianTx(guardian2, 2)>>
            /\ (guardians' # guardians \/ threshold' # threshold) =>
                  /\ guardian1 # guardian2
                  /\ {guardian1, guardian2} \cap guardians[m] = {}
                  /\ guardians'[m] = guardians[m] \cup {guardian1, guardian2}
                  /\ threshold'[m] = 2
                  /\ moduleEnabled'[m]
            /\ threshold'[m] # 1

\* C19: one batch in the documented order, applied as a whole
C19_OneAtomicBatch == [][C19_Step]_vars

\* the batch of three transactions was included on a new Safe
C19_Witness ==
    /\ running = "addGuardian"
    /\ userOp.st = "included"
    /\ Len(userOp.txs) = 3
    /\ guardians[ModuleAddress(AddGuardianSelector)] = {guardian1, guardian2}
    /\ threshold[ModuleAddress(AddGuardianSelector)] = 2

-----------------------------------------------------------------------------
\* add-personal-guardian printed "Confirmed": the receipt check of step 6 passed
AgConfirmed == Returned("addGuardian", "waitForUserOperation")

(* C20: whatever the two guardian keys (supplied or generated), a run of     *)
(* add-personal-guardian that reports confirmation leaves both guardian      *)
(* addresses registered on the module with guardian threshold 2; on a Safe   *)
(* that had no guardians these two are its guardians.                        *)
C20_ConfirmedMeansBothGuardians ==
    AgConfirmed =>
        LET m == ModuleAddress(AddGuardianSelector)
        IN  /\ guardian1 # guardian2
            /\ {guardian1, guardian2} \subseteq guardians[m]
            /\ threshold[m] = 2
            /\ moduleEnabled[m]
            /\ guardians[m] \in {{guardian1, guardian2},
                                 {guardian1, guardian2} \cup {"g1", "g2"}}

\* both keys were generated and the run was confirmed
C20_Witness ==
    /\ AgConfirmed
    /\ guardian1 = "n1" /\ guardian2 = "n2"
    /\ guardians[ModuleAddress(AddGuardianSelector)] = {"n1", "n2"}
    /\ pc["addGuardian"] = "exit0"

-----------------------------------------------------------------------------
(* C21: on every path by which a script that has created a wallet and an     *)
(* account terminates (completion, early return, thrown error), account and  *)
(* wallet have been disposed before the process exits.                       *)
C21_DisposedOnEveryExit ==
    \A s \in Scripts :
        (Terminated(s) /\ walletCreated /\ Returned(s, "getAccount")) => disposed

-----------------------------------------------------------------------------
(* C22: in the personal-guardian flow the typed data is obtained once and    *)
(* both guardians sign it: the domain and the message signed by guardian 2   *)
(* are those signed by guardian 1, and the account, the new owners and the   *)
(* new threshold of the signed message are the ones of the request created   *)
(* by createRecoveryRequest.                                                 *)
C22_GuardiansSignTheSameMessage ==
    /\ Count("recoveryPG", "getRecoveryRequestEip712Data") <= 1
    /\ Called("recoveryPG", "createRecoveryRequest") =>
          /\ Returned("recoveryPG", "getRecoveryRequestEip712Data")
          /\ guardian1Signature = signTypedData(guardian1, recoveryRequestEip712Data)
    /\ Returned("recoveryPG", "createRecoveryRequest") =>
          /\ guardian1Signature.message.account = recoveryRequest.account
          /\ guardian1Signature.message.newOwners = recoveryRequest.newOwners
          /\ guardian1Signature.message.newThreshold = recoveryRequest.newThreshold
    /\ Called("recoveryPG", "submitGuardianSignatureForRecoveryRequest") =>
          /\ guardian2Signature.signer = guardian2
          /\ guardian2Signature.domain = guardian1Signature.domain
          /\ guardian2Signature.message = guardian1Signature.message
          /\ guardian2Signature.message = recoveryRequest

\* two distinct guardians signed and the request was executed with both approvals
C22_Witness ==
    /\ guardian1Signature.signer = "g1"
    /\ guardian2Signature.signer = "g2"
    /\ guardian2Signature.message = MessageValue(safeAccountAddress, NewOwners, 1)
    /\ approvals = {"g1", "g2"}
    /\ Returned("recoveryPG", "executeRecoveryRequest")

-----------------------------------------------------------------------------
\* this step is the finalize call of the personal-guardian flow
PgFinalizeCalled ==
    /\ Len(calls'["recoveryPG"]) = Len(calls["recoveryPG"]) + 1
    /\ calls'["recoveryPG"][Len(calls'["recoveryPG"])].name = "finalizeRecoveryRequest"

\* the two timed waits between the return of the execute call and the finalize call
PgWaits == BundlerWait + GraceWait

C23_DeadlinePassedStep ==
    PgFinalizeCalled => (graceDeadline # 0 /\ now >= graceDeadline)

(* C23 (as stated): in the personal-guardian flow, whenever                  *)
(* finalizeRecoveryRequest is called, the on-chain deadline of the executed  *)
(* request has passed, whatever the delay of the inclusion of the execute    *)
(* transaction.                                                              *)
C23_FinalizeCalledAfterDeadline == [][C23_DeadlinePassedStep]_vars

C23_TimedWaitStep ==
    PgFinalizeCalled =>
        LET res == calls'["recoveryPG"][Len(calls'["recoveryPG"])].result
            \* the latest inclusion time for which the waits cover the grace period
            inTime == executeReturnedAt + PgWaits
                        - GracePeriodDuration(RecoveryPGServiceSelector)
        IN  /\ executeReturnedAt # 0
            /\ now >= executeReturnedAt + PgWaits
            /\ (/\ graceDeadline # 0
                /\ graceDeadline - GracePeriodDuration(RecoveryPGServiceSelector) <= inTime)
                  => now >= graceDeadline
            /\ (graceDeadline = 0 \/ now < graceDeadline) =>
                  /\ res \in {"falsy", "throw"}
                  /\ status' = status /\ owners' = owners /\ finTx' = finTx

(* C23 (amended): in the personal-guardian flow finalizeRecoveryRequest is   *)
(* called at least 4.5 minutes after executeRecoveryRequest returned, never  *)
(* after a look at the on-chain deadline: the deadline has passed when the   *)
(* execute transaction was included within 90 seconds of that return; with a *)
(* longer delay (or no inclusion) the call is made before the deadline and   *)
(* is rejected without any change.                                           *)
C23_FinalizeCalledAfterTimedWait == [][C23_TimedWaitStep]_vars

\* the execute transaction was included 90 seconds after the call returned, and the
\* finalize call, made as soon as the waits were over, met the deadline exactly
C23_Witness ==
    /\ flow = "recoveryPG"
    /\ Returned("recoveryPG", "finalizeRecoveryRequest")
    /\ graceDeadline = executeReturnedAt + PgWaits
    /\ finTx.st = "inflight"
    /\ now = graceDeadline

-----------------------------------------------------------------------------
\* a run of the email/SMS flow that ended without a thrown error and short of the
\* final report: an OTP was rejected, no guardian signature came back, or finalize
\* returned a falsy result
CuGaveUp ==
    /\ Terminated("recoveryCU")
    /\ NoThrow("recoveryCU")
    /\ \/ (verificationResult.defined /\ ~verificationResult.success)
       \/ (Called("recoveryCU", "requestCustodialGuardianSignatureChallenge")
             /\ ~verificationResult.hasSig)
       \/ finalizationResult = "falsy"

(* C24 (as stated): a run of the email/SMS recovery flow in which an OTP is  *)
(* rejected, no guardian signature is obtained or finalize reports failure   *)
(* ends with a non-zero exit status, unlike a completed recovery.            *)
C24_GivingUpExitsNonZero ==
    CuGaveUp => pc["recoveryCU"] = "exit1"

(* C24 (amended): such a run prints the reason and returns from main, so it  *)
(* ends with exit status 0, the status of a completed recovery; it differs   *)
(* from a completed recovery by what it printed and did (no final report, no *)
(* further call). Exit status 1 is that of a thrown error, and only that.    *)
C24_GivingUpExitsZero ==
    flow = "recoveryCU" =>
        /\ CuGaveUp => (pc["recoveryCU"] = "exit0" /\ ~completed)
        /\ completed => pc["recoveryCU"] = "exit0"
        /\ pc["recoveryCU"] = "exit1" <=>
              (calls["recoveryCU"] # <<>> /\ LastCall("recoveryCU").result = "throw")
        /\ (Terminated("recoveryCU") /\ NoThrow("recoveryCU") /\ ~completed) => CuGaveUp

\* the code of the second channel was rejected and the run ended with status 0
C24_Witness ==
    /\ pc["recoveryCU"] = "exit0"
    /\ Len(calls["recoveryCU"]) = 3
    /\ LastCall("recoveryCU").result = "rejected"
    /\ verifiedOk = {"email"}
    /\ status = "NONE"

-----------------------------------------------------------------------------
\* the account derived from the seed phrase is not the Safe of SAFE_ACCOUNT_ADDRESS
CancelMismatch ==
    /\ Returned("cancel", "getAccount")
    /\ toLowerCase(accountAddress) # toLowerCase(safeAccountAddress)

(* C25: cancel-recovery submits the cancellation only if the account address *)
(* derived from the seed phrase equals SAFE_ACCOUNT_ADDRESS, letter case     *)
(* aside; on a mismatch it fails (exit 1) before any transaction is          *)
(* submitted; a difference of letter case alone is not a mismatch.           *)
C25_CancelOnlyByDerivedOwner ==
    /\ (Called("cancel", "sendTransaction") \/ cancelTx.st # "none") =>
          /\ Returned("cancel", "getAccount")
          /\ toLowerCase(accountAddress) = toLowerCase(safeAccountAddress)
    /\ CancelMismatch =>
          /\ pc["cancel"] = "exit1"
          /\ LastCall("cancel") = [name |-> "getAccount", result |-> "ok"]
          /\ cancelTx = NoTx
    /\ (/\ pc["cancel"] = "exit1"
        /\ calls["cancel"] # <<>>
        /\ LastCall("cancel") = [name |-> "getAccount", result |-> "ok"]) => CancelMismatch

\* the env address is written in lower case, the derived one with a checksum: the
\* cancellation was submitted and included
C25_Witness ==
    /\ safeAccountAddress.form = "lower"
    /\ accountAddress = [id |-> "safe", form |-> "checksum"]
    /\ accountAddress # safeAccountAddress
    /\ cancelTx.st = "included"
    /\ cancelTx.sender = "safe"

-----------------------------------------------------------------------------
\* the operator answered the channel prompt of script s with something other than
\* 1, 2 or 3
OtherAnswer(s) ==
    /\ running = s
    /\ "choice" \in asked
    /\ choice.typed \notin {<<"1">>, <<"2">>, <<"3">>}

(* C27: for any answer at the channel-choice prompt that is not 1, 2 or 3    *)
(* (non-numeric answers included) setup-alerts and enable-email-sms-recovery *)
(* stop there: no registration or subscription is created, nothing is        *)
(* submitted on-chain and no further service call is made in that run.       *)
C27_OtherAnswerStops ==
    /\ OtherAnswer("setupAlerts") =>
          /\ calls["setupAlerts"] = <<[name |-> "getActiveSubscriptions", result |-> "ok"]>>
          /\ activated = {}
    /\ OtherAnswer("enableEmailSms") =>
          /\ ~Called("enableEmailSms", "createRegistrationToEmailRecovery")
          /\ ~Called("enableEmailSms", "createRegistrationToSmsRecovery")
          /\ ~Called("enableEmailSms", "submitRegistrationChallenge")
          /\ ~Called("enableEmailSms", "getRegistrations")
          /\ \A i \in 1..Len(submitted) : submitted[i] = <<EnableModuleTx>>
          /\ Count("enableEmailSms", "sendTransaction") = Len(submitted)
          /\ candideGuardianAddress = ""

-----------------------------------------------------------------------------
\* the registration challenges that returned so far in enable-email-sms-recovery
ChallengesReturned ==
    Cardinality({i \in 1..Len(calls["enableEmailSms"]) :
                    calls["enableEmailSms"][i] =
                        [name |-> "submitRegistrationChallenge", result |-> "ok"]})

C26_Step ==
    running = "enableEmailSms" =>
        \* the address of the email registration is not replaced by that of the SMS one
        /\ (pc["enableEmailSms"] = "submitSms" /\ EnableEmail(choice)) =>
              candideGuardianAddress' = candideGuardianAddress
        /\ (pc["enableEmailSms"] = "submitEmail" /\ candideGuardianAddress' # "") =>
              candideGuardianAddress' = "gc"
        \* the add-guardian transaction is submitted
        /\ (submitted' # submitted /\ submitted'[Len(submitted')] # <<EnableModuleTx>>) =>
              /\ candideGuardianAddress # ""
              /\ submitted'[Len(submitted')] = <<AddGuardianTx(candideGuardianAddress, 1)>>
              /\ EnableEmail(choice) \/ EnableSms(choice)
              /\ EnableEmail(choice) =>
                    Returned("enableEmailSms", "createRegistrationToEmailRecovery")
              /\ EnableSms(choice) =>
                    Returned("enableEmailSms", "createRegistrationToSmsRecovery")
              /\ ChallengesReturned = (IF EnableEmail(choice) THEN 1 ELSE 0)
                                        + (IF EnableSms(choice) THEN 1 ELSE 0)
              /\ NoThrow("enableEmailSms")
              /\ EnableEmail(choice) => candideGuardianAddress = "gc"

(* C26: enable-email-sms-recovery submits the add-guardian transaction only  *)
(* after every selected channel has completed its registration challenge     *)
(* without error, and only with a non-empty guardian address returned by a   *)
(* registration; when both channels are selected the guardian added is the   *)
(* address returned by the email registration.                               *)
C26_AddGuardianAfterRegistrations == [][C26_Step]_vars

\* both channels were registered and the guardian of the email registration was added
C26_Witness ==
    /\ running = "enableEmailSms"
    /\ choice.n = 3
    /\ ChallengesReturned = 2
    /\ userOp.st = "included"
    /\ userOp.txs = <<AddGuardianTx("gc", 1)>>
    /\ "gc" \in guardians[ModuleAddress(EnableEmailSmsSelector)]

-----------------------------------------------------------------------------
\* a second run: the Safe is as an earlier run of add-personal-guardian with these
\* two keys has left it (it is not the UserOperation of this run that set it up)
AgAlreadySetUp ==
    LET m == ModuleAddress(AddGuardianSelector)
    IN  /\ running = "addGuardian"
        /\ guardian1 # guardian2
        /\ moduleEnabled[m]
        /\ {guardian1, guardian2} \subseteq guardians[m]
        /\ userOp.st # "included"

C28_Step ==
    AgAlreadySetUp =>
        \* nothing changes on-chain
        /\ guardians' = guardians /\ threshold' = threshold
        /\ moduleEnabled' = moduleEnabled /\ owners' = owners
        \* the batch is submitted without the enable-module transaction
        /\ submitted' # submitted =>
              submitted' = <<<<AddGuardianTx(guardian1, 1), AddGuardianTx(guardian2, 2)>>>>
        \* and fails as a whole: the run is not confirmed and ends as a failure
        /\ userOp'.st # "included"
        /\ ~AgConfirmed'
        /\ pc'["addGuardian"] # "exit0"

-----------------------------------------------------------------------------
\* the balance reads of send-userop-erc20 that returned
BalanceReads ==
    Cardinality({i \in 1..Len(calls["sendErc20"]) :
                    calls["sendErc20"][i] =
                        [name |-> "getPaymasterTokenBalance", result |-> "ok"]})

C29_Step ==
    running = "sendErc20" =>
        \* the operation is submitted right after a read that showed tokens
        /\ submitted' # submitted =>
              /\ balance # 0
              /\ LastCall("sendErc20") = [name |-> "getPaymasterTokenBalance", result |-> "ok"]
              /\ BalanceReads \in {1, 2}
              /\ BalanceReads = 2 <=> "funded" \in asked
        \* a zero balance is read again once, after the operator was asked to fund
        /\ (balance' = 0 /\ BalanceReads' = 1) =>
              /\ "funded" \in asked'
              /\ pc'["sendErc20"] = IF NoThrow("sendErc20")' THEN "funding" ELSE "exit1"
        /\ (balance' = 0 /\ BalanceReads' >= 1) => BalanceReads' <= 2
        \* still zero: account and wallet are disposed, exit 1, nothing submitted
        /\ (balance' = 0 /\ BalanceReads' = 2) =>
              /\ pc'["sendErc20"] = "exit1"
              /\ disposed'
              /\ submitted' = <<>> /\ userOp' = NoUserOp
              /\ ~Called("sendErc20", "sendTransaction")'

(* C29: the ERC-20 gas script never submits a UserOperation while the last   *)
(* paymaster-token balance it read is zero: with an initial zero balance it  *)
(* reads again once after the operator confirmed the funding and, if the     *)
(* balance is still zero, disposes account and wallet and exits with failure *)
(* without submitting.                                                       *)
C29_NoSubmissionOnZeroBalance == [][C29_Step]_vars

\* the account was not funded: the second read showed zero and the script gave up
C29_Witness ==
    /\ running = "sendErc20"
    /\ balance = 0
    /\ BalanceReads = 2
    /\ "funded" \in asked
    /\ pc["sendErc20"] = "exit1"
    /\ disposed
    /\ submitted = <<>>

====
